---------------------------- MODULE Spec2Model ----------------------------
(***************************************************************************)
(* Cooperative multi-agent path-finding on a grid with moving obstacles:   *)
(* the world (world.cpp), the baseline planners and WHCA* (solvers.cpp)    *)
(* and operator decomposition (operator_decomposition.cpp).                *)
(***************************************************************************)
EXTENDS Integers, Sequences, FiniteSets, TLC

VARIABLES
  solver,        \* which driver runs: "world", "greedy", "lra", "whca", "od"
  agents_,       \* world::agents_    : position -> agent (id, target)
  obstacles_,    \* world::obstacles_ : position -> obstacle (next_move)
  tick_,         \* world::tick_
  err,           \* exception raised by the last operation, or "none"
  last_call,     \* the last world operation called and its argument
  pc,            \* where the driver is: "idle", "loop" (inside get_action), "replan"
                 \* (inside replan), "returned", "aborted" (a failed assertion)
  todo,          \* get_action: agents of the shuffled order not yet visited
  result,        \* get_action: the joint action built so far
  window_,       \* cooperative_a_star::window_
  rejoin_limit_, \* cooperative_a_star::rejoin_limit_
  paths_,        \* separate_paths_solver::paths_ : agent id -> path (goal first)
  agent_reservations_, \* cooperative_a_star::agent_reservations_
  field,         \* predictor: (cell, tick) -> probability in percent, where not 0
  last_find,     \* the find_path call made by the last loop iteration, if any
  times_without_path_, \* separate_paths_solver::times_without_path_
  data_,         \* lra::data_ : agent id -> agent_data
  groups_,       \* operator_decomposition::groups_
  reservation_table_,            \* operator_decomposition::reservation_table_
  permanent_reservation_table_,  \* ...::permanent_reservation_table_
  last_nonpermanent_reservation_, \* ...::last_nonpermanent_reservation_
  should_stop_,  \* solver::should_stop_, the cancellation flag
  plan_invalid_, \* operator_decomposition::plan_invalid_
  replan_groups_calls, \* replan: the calls of replan_groups its loop has made so far
  last_replan_group,   \* the last call of replan_group: its group, how its search ended
  node,          \* agents_state_time: the search node state_successors::get expands
  compared       \* the last call of partial_state_equal: its arguments and verdict

worldVars == <<agents_, obstacles_, tick_>>

driverVars == <<pc, todo, result>>

spsVars == <<window_, rejoin_limit_, paths_, agent_reservations_, field, last_find,
            times_without_path_, data_>>

odVars == <<groups_, reservation_table_, permanent_reservation_table_,
           last_nonpermanent_reservation_, should_stop_, plan_invalid_,
           replan_groups_calls, last_replan_group>>

searchVars == <<node, compared>>

vars == <<solver, agents_, obstacles_, tick_, err, last_call, driverVars, spsVars, odVars,
          searchVars>>

-----------------------------------------------------------------------------
(* Bounds of the model *)

\* Ticks the driver runs for.
MaxTick == 1

\* Largest delay drawn from an obstacle's move distribution.
MaxDelay == 2

\* Entities (agents and obstacles) the directly driven world holds at most.
MaxEntities == 2

\* Largest window WHCA* is configured with.
MaxWindow == 3

\* The rejoin limit WHCA* is configured with when rejoining is enabled.
MaxRejoin == 2

\* Agents of the largest group whose successors are expanded on their own.
MaxGroup == 3

\* Operators applied at most when successors are expanded on their own.
MaxOps == 4

-----------------------------------------------------------------------------
(* The map: rows of tiles, row y (from 0) is MapTiles[y + 1] *)

MapTiles == << <<"free", "free", "free", "wall">>,
               <<"free", "free", "free", "wall">> >>

Height == Len(MapTiles)

Width == Len(MapTiles[1])

Cells == {<<x, y>> : x \in 0 .. Width - 1, y \in 0 .. Height - 1}

NoPos == <<-1, -1>>

map_get(p) == MapTiles[p[2] + 1][p[1] + 1]

all_directions == <<"north", "east", "south", "west">>

Directions == {all_directions[i] : i \in 1 .. 4}

\* translate that moves south for north as well
translate_north_as_south(p, d) ==
  CASE d = "north" -> <<p[1], p[2] + 1>>
    [] d = "east"  -> <<p[1] + 1, p[2]>>
    [] d = "south" -> <<p[1], p[2] + 1>>
    [] d = "west"  -> <<p[1] - 1, p[2]>>

translate(p, d) ==
  CASE d = "north" -> <<p[1], p[2] - 1>>
    [] d = "east"  -> <<p[1] + 1, p[2]>>
    [] d = "south" -> <<p[1], p[2] + 1>>
    [] d = "west"  -> <<p[1] - 1, p[2]>>

in_bounds(p) == p[1] >= 0 /\ p[2] >= 0 /\ p[1] < Width /\ p[2] < Height

traversable(t) == t = "free"

Abs(n) == IF n < 0 THEN -n ELSE n

distance(p, q) == Abs(p[1] - q[1]) + Abs(p[2] - q[2])

neighbours(p, q) == distance(p, q) = 1

-----------------------------------------------------------------------------
(* world, as a value: [agents, obstacles, tick] *)

World(a, o, t) == [agents |-> a, obstacles |-> o, tick |-> t]

\* world::get : agent > obstacle > map tile
world_get(w, p) ==
  IF p \in DOMAIN w.agents THEN "agent"
  ELSE IF p \in DOMAIN w.obstacles THEN "obstacle"
  ELSE map_get(p)

\* f without key k
Drop(f, k) == [x \in DOMAIN f \ {k} |-> f[x]]

\* f with key k inserted; unordered_map::insert keeps an existing entry
Insert(f, k, v) == [x \in DOMAIN f \cup {k} |-> IF x \in DOMAIN f THEN f[x] ELSE v]

\* The world operations return [w |-> world after, err |-> exception or "none"]
Ok(w) == [w |-> w, err |-> "none"]

Throw(w) == [w |-> w, err |-> "logic_error"]

put_agent(w, p, a) ==
  IF world_get(w, p) # "free" THEN Throw(w)
  ELSE Ok([w EXCEPT !.agents = Insert(w.agents, p, a)])

\* remove_agent without the check that an agent is there
remove_agent_unchecked(w, p) ==
  Ok([w EXCEPT !.agents = Drop(w.agents, p)])

remove_agent(w, p) ==
  IF p \notin DOMAIN w.agents THEN Throw(w)
  ELSE Ok([w EXCEPT !.agents = Drop(w.agents, p)])

\* put_obstacle that looks at the map tile only, not at the agents and obstacles
put_obstacle_map_only(w, p, o) ==
  IF map_get(p) # "free" THEN Throw(w)
  ELSE Ok([w EXCEPT !.obstacles = Insert(w.obstacles, p, o)])

put_obstacle(w, p, o) ==
  IF world_get(w, p) # "free" THEN Throw(w)
  ELSE Ok([w EXCEPT !.obstacles = Insert(w.obstacles, p, o)])

remove_obstacle(w, p) ==
  IF p \notin DOMAIN w.obstacles THEN Throw(w)
  ELSE Ok([w EXCEPT !.obstacles = Drop(w.obstacles, p)])

\* move that asks only whether the drawn cell is in bounds
move_onto_any_cell(r, o, pos, d, dl) ==
  LET new_pos == translate(pos, d) IN
  IF r.err # "none" THEN r
  ELSE IF in_bounds(new_pos) THEN
    LET r1 == remove_obstacle(r.w, pos) IN
    IF r1.err # "none" THEN r1
    ELSE put_obstacle(r1.w, new_pos, [o EXCEPT !.next_move = r.w.tick + dl])
  ELSE r

\* move(obstacle, pos, world, rng) for drawn direction d and delay dl
move(r, o, pos, d, dl) ==
  LET new_pos == translate(pos, d) IN
  IF r.err # "none" THEN r
  ELSE IF in_bounds(new_pos) /\ traversable(world_get(r.w, new_pos)) THEN
    LET r1 == remove_obstacle(r.w, pos) IN
    IF r1.err # "none" THEN r1
    ELSE put_obstacle(r1.w, new_pos, [o EXCEPT !.next_move = r.w.tick + dl])
  ELSE r

\* The loop of world::next_tick over the copy `snapshot' of the obstacles, in
\* any iteration order, with any draws: the set of possible results.
RECURSIVE next_tick_loop(_, _, _)
next_tick_loop(r, snapshot, rest) ==
  IF rest = {} THEN {r}
  ELSE UNION {
    IF snapshot[pos].next_move = r.w.tick
    THEN UNION { next_tick_loop(move(r, snapshot[pos], pos, d, dl), snapshot,
                                rest \ {pos})
                 : <<d, dl>> \in Directions \X (1 .. MaxDelay) }
    ELSE next_tick_loop(r, snapshot, rest \ {pos})
    : pos \in rest }

next_tick(w) ==
  LET w1 == [w EXCEPT !.tick = w.tick + 1] IN
  next_tick_loop(Ok(w1), w1.obstacles, DOMAIN w1.obstacles)

-----------------------------------------------------------------------------
(* Inputs *)

Empty == << >>

AgentIds == {0, 1}

Agent(id, target) == [id |-> id, target |-> target]

Obstacle(nm) == [next_move |-> nm]

\* Cells the world's mutation interface is called on: two free cells and the wall
OpCells == {<<0, 0>>, <<1, 0>>, <<3, 1>>}

\* The agents handed to put_agent
NewAgents == {Agent(0, <<2, 0>>), Agent(1, <<0, 0>>)}

\* The number of entities (agents and obstacles) of world w
Entities(w) == Cardinality(DOMAIN w.agents) + Cardinality(DOMAIN w.obstacles)

-----------------------------------------------------------------------------
(* The world driven directly through its mutation interface *)

TheWorld == World(agents_, obstacles_, tick_)

\* Values of the variables a run does not use
NoDriver == pc = "idle" /\ todo = {} /\ result = {}

NoOd ==
  /\ groups_ = << >>
  /\ reservation_table_ = Empty
  /\ permanent_reservation_table_ = Empty
  /\ last_nonpermanent_reservation_ = 0
  /\ should_stop_ = FALSE
  /\ plan_invalid_ = 0
  /\ replan_groups_calls = 0
  /\ last_replan_group = [group |-> << >>, search |-> "none"]

\* No search node is being expanded
NoNode ==
  /\ node = [state |-> [agents |-> << >>, next_agent |-> 0], time |-> 0]
  /\ compared = Empty

NoSps ==
  /\ window_ = 0
  /\ rejoin_limit_ = 0
  /\ paths_ = Empty
  /\ agent_reservations_ = Empty
  /\ field = Empty
  /\ last_find = Empty
  /\ times_without_path_ = 0
  /\ data_ = Empty

SetWorld(r) ==
  /\ agents_' = r.w.agents
  /\ obstacles_' = r.w.obstacles
  /\ tick_' = r.w.tick
  /\ err' = r.err

InitWorld ==
  /\ solver = "world"
  /\ agents_ = Empty
  /\ obstacles_ = Empty
  /\ tick_ = 0
  /\ err = "none"
  /\ last_call = <<"none", NoPos>>
  /\ NoDriver
  /\ NoSps
  /\ NoOd
  /\ NoNode

PutAgent ==
  /\ solver = "world"
  /\ \E p \in OpCells, a \in NewAgents :
       /\ Entities(put_agent(TheWorld, p, a).w) <= MaxEntities
       /\ SetWorld(put_agent(TheWorld, p, a))
       /\ last_call' = <<"put_agent", p>>
  /\ UNCHANGED <<solver, searchVars, driverVars, spsVars, odVars>>

RemoveAgent ==
  /\ solver = "world"
  /\ \E p \in OpCells :
       /\ SetWorld(remove_agent(TheWorld, p))
       /\ last_call' = <<"remove_agent", p>>
  /\ UNCHANGED <<solver, searchVars, driverVars, spsVars, odVars>>

PutObstacle ==
  /\ solver = "world"
  /\ \E p \in OpCells, dl \in 1 .. MaxDelay :
       /\ Entities(put_obstacle(TheWorld, p, Obstacle(tick_ + dl)).w) <= MaxEntities
       /\ SetWorld(put_obstacle(TheWorld, p, Obstacle(tick_ + dl)))
       /\ last_call' = <<"put_obstacle", p>>
  /\ UNCHANGED <<solver, searchVars, driverVars, spsVars, odVars>>

RemoveObstacle ==
  /\ solver = "world"
  /\ \E p \in OpCells :
       /\ SetWorld(remove_obstacle(TheWorld, p))
       /\ last_call' = <<"remove_obstacle", p>>
  /\ UNCHANGED <<solver, searchVars, driverVars, spsVars, odVars>>

NextTick ==
  /\ solver = "world"
  /\ tick_ < MaxTick
  /\ \E r \in next_tick(TheWorld) : SetWorld(r)
  /\ last_call' = <<"next_tick", NoPos>>
  /\ UNCHANGED <<solver, searchVars, driverVars, spsVars, odVars>>

SpecWorld ==
  InitWorld
  /\ [][PutAgent \/ RemoveAgent \/ PutObstacle \/ RemoveObstacle \/ NextTick]_vars

-----------------------------------------------------------------------------
(* Actions: valid and apply *)

\* The direction of the unit step from `from' to `to'
direction_to(from, to) == CHOOSE d \in Directions : translate(from, d) = to

Action(from, d) == [from |-> from, dir |-> d]

\* valid(action, world): the destination is in bounds and a free tile
valid(a, w) ==
  LET dest == translate(a.from, a.dir) IN
  in_bounds(dest) /\ world_get(w, dest) = "free"

\* apply(action, world): the agent is taken off its cell and put on the next
apply(a, w) ==
  LET dest == translate(a.from, a.dir)
      r1 == remove_agent(w, a.from)
  IN IF r1.err # "none" \/ ~in_bounds(dest) THEN Throw(w)
     ELSE LET r2 == put_agent(r1.w, dest, w.agents[a.from]) IN
          IF r2.err # "none" THEN Throw(w) ELSE r2

-----------------------------------------------------------------------------
(* A*: the paths a search may return *)

\* position_successors: the in-bounds neighbours that are not walls
position_successors(p) ==
  {q \in {translate(p, all_directions[i]) : i \in 1 .. 4} :
     in_bounds(q) /\ map_get(q) # "wall"}

\* Successors on the space-time coordinate: a step, or waiting in place
space_time_successors(p) == position_successors(p) \cup {p}

Last(seq) == seq[Len(seq)]

Reverse(seq) == [i \in 1 .. Len(seq) |-> seq[Len(seq) + 1 - i]]

\* The walks from the end of `sofar' (k steps made) to n steps, every step
\* <<where, from, distance>> in pass; stop(q) ends a walk at q.
RECURSIVE Walks(_, _, _, _, _)
Walks(sofar, k, n, pass, stops) ==
  IF k > 0 /\ Last(sofar) \in stops THEN {sofar}
  ELSE IF k = n THEN (IF stops = {} THEN {sofar} ELSE {})
  ELSE UNION { Walks(Append(sofar, q), k + 1, n, pass, stops) :
               q \in {q \in space_time_successors(Last(sofar)) :
                        <<q, Last(sofar), k + 1>> \in pass} }

\* a_star<..., space_time_coordinate>::find_path(w, window): the paths of
\* exactly `window' passable steps from `from', stored goal first
find_path_window(from, window, pass) ==
  {Reverse(wk) : wk \in Walks(<<from>>, 0, window, pass, {})}

\* a_star<..., space_time_coordinate>::find_path(w, is_target, limit): the
\* paths of at most `limit' passable steps that end on the first target reached
find_path_target(from, limit, pass, targets) ==
  IF targets = {} THEN {}
  ELSE {Reverse(wk) : wk \in Walks(<<from>>, 0, limit, pass, targets)}

\* The simple walks from the end of `sofar' to `goal' over passable cells
RECURSIVE SimpleWalks(_, _, _)
SimpleWalks(sofar, goal, pass) ==
  IF Last(sofar) = goal THEN {sofar}
  ELSE UNION { SimpleWalks(Append(sofar, q), goal, pass) :
               q \in {q \in position_successors(Last(sofar)) :
                        /\ q \in pass
                        /\ \A i \in 1 .. Len(sofar) : sofar[i] # q} }

\* a_star<>::find_path(w): the paths to the goal, stored goal first
find_path_goal(from, goal, pass) ==
  {Reverse(wk) : wk \in SimpleWalks(<<from>>, goal, pass)}

-----------------------------------------------------------------------------
(* The planner state of separate_paths_solver and its subclasses, as a value *)

SolverState(p, r, f, l, n, d) ==
  [paths |-> p, res |-> r, field |-> f, last_find |-> l, times_without_path |-> n,
   data |-> d, aborted |-> FALSE]

PosOf(w, id) == CHOOSE p \in DOMAIN w.agents : w.agents[p].id = id

\* The fields the predictor may hold, probabilities in percent: nothing
\* predicted, or one cell-tick at the threshold of WHCA* and one certain
Fields ==
  {Empty, (<<<<1, 0>>, 2>> :> 10) @@ (<<<<1, 1>>, 2>> :> 100)}

\* predictor::predict_obstacle
predict_obstacle(fld, pt) == IF pt \in DOMAIN fld THEN fld[pt] ELSE 0

\* cooperative_a_star::obstacle_threshold_, in percent
obstacle_threshold_ == 10

-----------------------------------------------------------------------------
(* cooperative_a_star (WHCA* ) *)

\* passable_if_not_reserved without the rule on the tiles next to the agent
passable_if_not_reserved_any_tile(reservations_, from_, where, from, w, dist) ==
  /\ <<where, w.tick + dist>> \notin DOMAIN reservations_
  /\ ~ (/\ <<from, w.tick + dist>> \in DOMAIN reservations_
        /\ reservations_[<<from, w.tick + dist>>].from = where)

passable_if_not_reserved(reservations_, from_, where, from, w, dist) ==
  /\ <<where, w.tick + dist>> \notin DOMAIN reservations_
  /\ ~ (/\ <<from, w.tick + dist>> \in DOMAIN reservations_
        /\ reservations_[<<from, w.tick + dist>>].from = where)
  /\ (world_get(w, where) = "free" \/ ~neighbours(where, from_))

passable_if_not_predicted_obstacle(fld, reservations_, from_, where, from, w, dist) ==
  /\ passable_if_not_reserved(reservations_, from_, where, from, w, dist)
  /\ predict_obstacle(fld, <<where, w.tick + dist>>) <= obstacle_threshold_

\* reserve that records no cell an agent comes from
reserve_without_from(res, a_id, path, from_tick) ==
  LET n == Len(path)
      keys == {<<path[n - d], from_tick + d>> : d \in 0 .. n - 1}
  IN [k \in DOMAIN res \cup keys |->
        IF k \in keys THEN [agent |-> a_id, from |-> NoPos] ELSE res[k]]

\* cooperative_a_star::reserve
reserve(res, a_id, path, from_tick) ==
  LET n == Len(path)
      keys == {<<path[n - d], from_tick + d>> : d \in 0 .. n - 1}
      rec(k) == LET d == k[2] - from_tick IN
                [agent |-> a_id, from |-> IF d > 0 THEN path[n - d + 1] ELSE NoPos]
  IN [k \in DOMAIN res \cup keys |-> IF k \in keys THEN rec(k) ELSE res[k]]

\* The keys of the path for which the assertion of reserve fails: an entry is
\* there before reserve writes it
reserved_already(res, path, from_tick) ==
  {k \in {<<path[Len(path) - d], from_tick + d>> : d \in 0 .. Len(path) - 1} :
     k \in DOMAIN res}

\* unreserve that removes nothing
unreserve_nothing(res, a_id) == res

\* cooperative_a_star::unreserve
unreserve(res, a_id) ==
  [k \in {k \in DOMAIN res : res[k].agent # a_id} |-> res[k]]

\* rejoin_path that keeps the old path up to and including the rejoin cell
rejoin_path_keeping_rejoin_cell(res, w, from, old_path) ==
  LET targets == {old_path[i] : i \in {i \in 1 .. Len(old_path) :
                                        world_get(w, old_path[i]) = "free"}}
      pass == {t \in Cells \X Cells \X (1 .. rejoin_limit_) :
                 passable_if_not_reserved(res, from, t[1], t[2], w, t[3])}
      \* target_positions keeps the occurrence nearest to the back of old_path
      rejoin_point(c) == CHOOSE i \in 1 .. Len(old_path) :
                           /\ old_path[i] = c
                           /\ \A j \in i + 1 .. Len(old_path) : old_path[j] # c
  IN IF old_path = << >> THEN {}
     ELSE { SubSeq(old_path, 1, rejoin_point(jp[1])) \o jp :
            jp \in find_path_target(from, rejoin_limit_, pass, targets) }

\* rejoin_path: the spliced paths it may return; the empty set when it returns none
rejoin_path(res, w, from, old_path) ==
  LET targets == {old_path[i] : i \in {i \in 1 .. Len(old_path) :
                                        world_get(w, old_path[i]) = "free"}}
      pass == {t \in Cells \X Cells \X (1 .. rejoin_limit_) :
                 passable_if_not_reserved(res, from, t[1], t[2], w, t[3])}
      \* target_positions keeps the occurrence nearest to the back of old_path
      rejoin_point(c) == CHOOSE i \in 1 .. Len(old_path) :
                           /\ old_path[i] = c
                           /\ \A j \in i + 1 .. Len(old_path) : old_path[j] # c
  IN IF old_path = << >> THEN {}
     ELSE { SubSeq(old_path, 1, rejoin_point(jp[1]) - 1) \o jp :
            jp \in find_path_target(from, rejoin_limit_, pass, targets) }

\* cooperative_a_star::find_path: the set of [s |-> state after, path |-> result]
whca_find_path(s, w, from, old_path) ==
  LET a == w.agents[from]
      res1 == unreserve(s.res, a.id)
      rejoined == IF rejoin_limit_ > 0 /\ old_path # << >>
                  THEN rejoin_path(res1, w, from, old_path) ELSE {}
      primary(fld) ==
        LET pass == {t \in Cells \X Cells \X (1 .. window_) :
                       passable_if_not_predicted_obstacle(fld, res1, from, t[1], t[2],
                                                          w, t[3])}
            found == find_path_window(from, window_, pass)
        IN IF found = {} THEN {<< >>} ELSE found
      \* what reserve is called with, and the keys its assertion fails for: the
      \* run dies there, or without assertions goes on and overwrites them
      found(p) == [agent |-> a.id, kind |-> "primary", path |-> p, tick |-> w.tick,
                   from |-> from, clash |-> reserved_already(res1, p, w.tick)]
  IN IF rejoined # {}
     THEN { [s |-> [s EXCEPT !.res = res1,
                             !.last_find = [agent |-> a.id, kind |-> "rejoin",
                                            path |-> p, tick |-> w.tick,
                                            old_path |-> old_path, from |-> from]],
             path |-> p] : p \in rejoined }
     ELSE UNION { {[s |-> [s EXCEPT !.res = reserve(res1, a.id, p, w.tick),
                                    !.last_find = found(p),
                                    !.aborted = stop],
                    path |-> IF stop THEN << >> ELSE p]
                   : stop \in {FALSE} \cup {TRUE : k \in reserved_already(res1, p, w.tick)}}
                  : p \in primary(s.field) }

-----------------------------------------------------------------------------
(* lra (LRA* ) *)

passable_not_immediate_neighbour(from_, p, w) ==
  world_get(w, p) = "free" \/ ~neighbours(p, from_)

\* lra::agent_data
AgentData(last_recalculation, agitation) ==
  [last_recalculation |-> last_recalculation, agitation |-> agitation]

\* data_[id]: an agent the map does not hold yet gets a default agent_data
agent_data(data, id) == IF id \in DOMAIN data THEN data[id] ELSE AgentData(0, 0)

\* What 5 / 0 yields in a build without assertions where the division does not trap
ZeroQuotients == {0}

\* lra::find_path with the quotient 5 / recalc_interval rounded up
lra_recalculation_rounding_up(d, tick) ==
  LET recalc_interval == tick - d.last_recalculation IN
  IF recalc_interval = 0
  THEN {[data |-> d, aborted |-> TRUE]}
       \cup {[data |-> AgentData(tick, d.agitation + q), aborted |-> FALSE] :
               q \in ZeroQuotients}
  ELSE IF recalc_interval < 5
  THEN {[data |-> AgentData(tick, d.agitation + (5 + recalc_interval - 1) \div recalc_interval),
         aborted |-> FALSE]}
  ELSE {[data |-> AgentData(tick, 0), aborted |-> FALSE]}

\* lra::find_path, its bookkeeping of the agent's agent_data d at tick `tick':
\* the outcomes [data, aborted]. An interval of 0 fails the assertion, and
\* without assertions divides by zero: the run dies or goes on with some quotient
lra_recalculation(d, tick) ==
  LET recalc_interval == tick - d.last_recalculation IN
  IF recalc_interval = 0
  THEN {[data |-> d, aborted |-> TRUE]}
       \cup {[data |-> AgentData(tick, d.agitation + q), aborted |-> FALSE] :
               q \in ZeroQuotients}
  ELSE IF recalc_interval < 5
  THEN {[data |-> AgentData(tick, d.agitation + 5 \div recalc_interval),
         aborted |-> FALSE]}
  ELSE {[data |-> AgentData(tick, 0), aborted |-> FALSE]}

\* lra::find_path: the set of [s |-> state after, path |-> result]
lra_find_path(s, w, from) ==
  LET a == w.agents[from]
      pass == {p \in Cells : passable_not_immediate_neighbour(from, p, w)}
      found == find_path_goal(from, a.target, pass)
      before == agent_data(s.data, a.id)
      call(recalculated) == [agent |-> a.id, kind |-> "lra", tick |-> w.tick,
                             data |-> before, recalculated |-> recalculated,
                             from |-> from]
      out(p, r) ==
        IF r.aborted
        THEN [s |-> [s EXCEPT !.last_find = call(TRUE) @@ [path |-> << >>],
                              !.aborted = TRUE],
              path |-> << >>]
        ELSE [s |-> [s EXCEPT !.last_find = call(TRUE) @@ [path |-> p],
                              !.data = (a.id :> r.data) @@ @],
              path |-> p]
  IN IF from = a.target
     THEN {[s |-> [s EXCEPT !.last_find = call(FALSE) @@ [path |-> << >>]],
            path |-> << >>]}
     ELSE {out(p, r) : p \in (IF found = {} THEN {<< >>} ELSE found),
                       r \in lra_recalculation(before, w.tick)}

-----------------------------------------------------------------------------
(* separate_paths_solver *)

find_path(s, w, from, old_path) ==
  IF solver = "lra" THEN lra_find_path(s, w, from)
  ELSE whca_find_path(s, w, from, old_path)

recalculate(s, w, from, old_path) == find_path(s, w, from, old_path)

\* next_step: the set of [s |-> state after, next |-> the next position or NoPos]
\* next_step that returns the step after the agent's cell and pops nothing
next_step_without_pop(s, w, from, old_path) ==
  LET id == w.agents[from].id
      calc == IF Len(s.paths[id]) < 2 THEN recalculate(s, w, from, old_path)
              ELSE {[s |-> s, path |-> s.paths[id]]}
  IN { IF Len(c.path) < 2
       THEN [s |-> [c.s EXCEPT !.paths[id] = c.path], next |-> NoPos]
       ELSE [s |-> [c.s EXCEPT !.paths[id] = c.path],
             next |-> c.path[Len(c.path) - 1]]
       : c \in calc }

next_step(s, w, from, old_path) ==
  LET id == w.agents[from].id
      calc == IF Len(s.paths[id]) < 2 THEN recalculate(s, w, from, old_path)
              ELSE {[s |-> s, path |-> s.paths[id]]}
  IN { IF Len(c.path) < 2
       THEN [s |-> [c.s EXCEPT !.paths[id] = c.path], next |-> NoPos]
       ELSE [s |-> [c.s EXCEPT !.paths[id] = SubSeq(c.path, 1, Len(c.path) - 1)],
             next |-> c.path[Len(c.path) - 1]]
       : c \in calc }

\* One iteration of the loop of get_action, for agent id: the set of
\* [s, w, acts, err] it may end in
sps_iteration(s, w, id) ==
  LET pos == PosOf(w, id)
      skip(s1) == [s |-> s1, w |-> w, acts |-> {}, err |-> "none"]
      \* the assertion of lra::find_path failed: the run is over
      aborted(o) == o.s.aborted
      act(s1, next) ==
        LET a == Action(pos, direction_to(pos, next))
            r == apply(a, w)
        IN [s |-> s1, w |-> r.w, acts |-> {a}, err |-> r.err]
      second(o2) ==
        IF aborted(o2) \/ o2.next = NoPos \/ pos = o2.next THEN skip(o2.s)
        ELSE act(o2.s, o2.next)
      first(o1) ==
        IF aborted(o1) THEN {skip(o1.s)}
        ELSE IF o1.next = NoPos
        THEN {skip(IF pos # w.agents[pos].target
                   THEN [o1.s EXCEPT !.times_without_path = @ + 1]
                   ELSE o1.s)}
        ELSE IF pos = o1.next THEN {skip(o1.s)}
        ELSE IF ~valid(Action(pos, direction_to(pos, o1.next)), w)
        THEN LET old_path == o1.s.paths[id]
                 erased == [o1.s EXCEPT !.paths[id] = << >>]
             IN {second(o2) : o2 \in next_step(erased, w, pos, old_path)}
        ELSE {act(o1.s, o1.next)}
  IN UNION {first(o1) : o1 \in next_step(s, w, pos, << >>)}

TheSolver == SolverState(paths_, agent_reservations_, field, last_find,
                         times_without_path_, data_)

SetSolver(s) ==
  /\ paths_' = s.paths
  /\ agent_reservations_' = s.res
  /\ field' = s.field
  /\ last_find' = s.last_find
  /\ times_without_path_' = s.times_without_path
  /\ data_' = s.data

\* The worlds a planner is started on
Scenarios ==
  LET two == (<<0, 0>> :> Agent(0, <<2, 0>>)) @@ (<<2, 0>> :> Agent(1, <<0, 0>>))
      crowded == (<<0, 1>> :> Agent(0, <<1, 0>>)) @@ (<<2, 0>> :> Agent(1, <<2, 1>>))
      parked == (<<1, 0>> :> Agent(0, <<1, 0>>)) @@ (<<0, 0>> :> Agent(1, <<2, 0>>))
  IN { World(two, Empty, 0),
       World(two, (<<1, 1>> :> Obstacle(1)), 0),
       World(parked, (<<0, 1>> :> Obstacle(MaxTick + 1)), 0),
       World(crowded, (<<1, 0>> :> Obstacle(1)) @@ (<<1, 1>> :> Obstacle(1)), 0) }

InitSps(kind) ==
  /\ solver = kind
  /\ \E w \in Scenarios :
       /\ agents_ = w.agents
       /\ obstacles_ = w.obstacles
       /\ tick_ = w.tick
       /\ paths_ = [id \in {w.agents[p].id : p \in DOMAIN w.agents} |-> << >>]
  /\ err = "none"
  /\ last_call = <<"none", NoPos>>
  /\ NoDriver
  /\ NoOd
  /\ NoNode
  /\ agent_reservations_ = Empty
  /\ last_find = Empty
  /\ times_without_path_ = 0
  /\ data_ = Empty

InitLra ==
  /\ InitSps("lra")
  /\ field = Empty
  /\ window_ = 0
  /\ rejoin_limit_ = 0

InitWhca ==
  /\ InitSps("whca")
  /\ field \in Fields
  /\ window_ \in 1 .. MaxWindow
  /\ rejoin_limit_ \in {0, MaxRejoin}

\* The planners driven through solver::get_action
GetActionSolvers == {"greedy", "lra", "whca"}

\* The driver calls get_action with a copy of its world
GetAction ==
  /\ solver \in GetActionSolvers
  /\ pc = "idle"
  /\ err = "none"
  /\ pc' = "loop"
  /\ todo' = {agents_[p].id : p \in DOMAIN agents_}
  /\ result' = {}
  /\ last_find' = Empty
  /\ UNCHANGED <<solver, searchVars, worldVars, err, last_call, window_, rejoin_limit_, paths_,
                 agent_reservations_, field, times_without_path_, data_, odVars>>

\* One iteration of the loop over the shuffled agents
SpsIteration ==
  /\ solver \in {"lra", "whca"}
  /\ pc = "loop"
  /\ err = "none"
  /\ \E id \in todo :
       \E o \in sps_iteration([TheSolver EXCEPT !.last_find = Empty], TheWorld, id) :
         /\ SetSolver(o.s)
         /\ SetWorld(o)
         /\ result' = result \cup o.acts
         /\ todo' = IF o.s.aborted THEN todo ELSE todo \ {id}
         /\ pc' = IF o.s.aborted THEN "aborted" ELSE pc
  /\ UNCHANGED <<solver, searchVars, last_call, window_, rejoin_limit_, odVars>>

\* get_action returns and the driver applies the joint action to its world
Return ==
  /\ solver \in GetActionSolvers
  /\ pc = "loop"
  /\ err = "none"
  /\ todo = {}
  /\ pc' = "returned"
  /\ UNCHANGED <<solver, searchVars, worldVars, err, last_call, todo, result, spsVars, odVars>>

\* The driver advances the world by one tick; a cancelled run is not resumed
DriverNextTick ==
  /\ solver \in GetActionSolvers \cup {"od"}
  /\ pc = "returned"
  /\ ~should_stop_
  /\ tick_ < MaxTick
  /\ \E r \in next_tick(TheWorld) : SetWorld(r)
  /\ pc' = "idle"
  /\ UNCHANGED <<solver, searchVars, last_call, todo, result, spsVars, odVars>>

NextSps == GetAction \/ SpsIteration \/ Return \/ DriverNextTick

SpecLra == InitLra /\ [][NextSps]_vars

SpecWhca == InitWhca /\ [][NextSps]_vars

\* Both subclasses of separate_paths_solver
SpecSps == (InitLra \/ InitWhca) /\ [][NextSps]_vars

-----------------------------------------------------------------------------
(* greedy *)

\* solved that is content with one agent on its target
solved_any(w) == \E pos \in DOMAIN w.agents : pos = w.agents[pos].target

\* solved: false as soon as the loop meets an agent off its target
solved(w) == ~ \E pos \in DOMAIN w.agents : pos # w.agents[pos].target

\* make_random_action that applies the drawn action without asking valid
make_random_action_unchecked(from, w, d) ==
  LET a == Action(from, d)
      r == apply(a, w)
  IN [w |-> r.w, acts |-> {a}, err |-> r.err]

\* make_random_action for the drawn direction d: [w, acts, err]
make_random_action(from, w, d) ==
  LET a == Action(from, d) IN
  IF valid(a, w)
  THEN LET r == apply(a, w) IN [w |-> r.w, acts |-> {a}, err |-> r.err]
  ELSE [w |-> w, acts |-> {}, err |-> "none"]

\* greedy's direction with a tie of the two distances broken along the x axis
greedy_direction_ties_along_x(pos, goal) ==
  LET dx == goal[1] - pos[1]
      dy == goal[2] - pos[2]
  IN IF Abs(dx) >= Abs(dy)
     THEN (IF dx > 0 THEN "east" ELSE "west")
     ELSE (IF dy > 0 THEN "south" ELSE "north")

\* The direction greedy heads in: along the axis of the larger distance
greedy_direction(pos, goal) ==
  LET dx == goal[1] - pos[1]
      dy == goal[2] - pos[2]
  IN IF Abs(dx) > Abs(dy)
     THEN (IF dx > 0 THEN "east" ELSE "west")
     ELSE (IF dy > 0 THEN "south" ELSE "north")

\* greedy's loop body without the test for an agent on its goal
greedy_iteration_no_goal_check(w, id, random_move, random_dir) ==
  LET pos == PosOf(w, id)
      goal == w.agents[pos].target
      a == Action(pos, greedy_direction(pos, goal))
  IN IF random_move THEN make_random_action(pos, w, random_dir)
     ELSE IF valid(a, w)
     THEN LET r == apply(a, w) IN [w |-> r.w, acts |-> {a}, err |-> r.err]
     ELSE make_random_action(pos, w, random_dir)

\* One iteration of the loop of greedy::get_action, for the draws random_move
\* and random_dir: [w, acts, err]
greedy_iteration(w, id, random_move, random_dir) ==
  LET pos == PosOf(w, id)
      goal == w.agents[pos].target
      a == Action(pos, greedy_direction(pos, goal))
  IN IF pos = goal THEN [w |-> w, acts |-> {}, err |-> "none"]
     ELSE IF random_move THEN make_random_action(pos, w, random_dir)
     ELSE IF valid(a, w)
     THEN LET r == apply(a, w) IN [w |-> r.w, acts |-> {a}, err |-> r.err]
     ELSE make_random_action(pos, w, random_dir)

InitGreedy ==
  /\ InitSps("greedy")
  /\ field = Empty
  /\ window_ = 0
  /\ rejoin_limit_ = 0

GreedyIteration ==
  /\ solver = "greedy"
  /\ pc = "loop"
  /\ err = "none"
  /\ \E id \in todo, random_move \in BOOLEAN, random_dir \in Directions :
       LET o == greedy_iteration(TheWorld, id, random_move, random_dir) IN
         /\ SetWorld(o)
         /\ result' = result \cup o.acts
         /\ todo' = todo \ {id}
  /\ UNCHANGED <<solver, searchVars, pc, last_call, spsVars, odVars>>

SpecGreedy ==
  InitGreedy /\ [][GetAction \/ GreedyIteration \/ Return \/ DriverNextTick]_vars

-----------------------------------------------------------------------------
(* operator_decomposition: states and their successors *)

inverse(d) ==
  CASE d = "north" -> "south"
    [] d = "east"  -> "west"
    [] d = "south" -> "north"
    [] d = "west"  -> "east"

AgentRecord(p, id, action) == [position |-> p, id |-> id, action |-> action]

AgentsState(agents, next_agent) == [agents |-> agents, next_agent |-> next_agent]

\* Indexes of the records a loop over state.agents visits before it breaks at
\* the first unassigned one
AssignedPrefix(state) ==
  {j \in 1 .. Len(state.agents) :
     \A k \in 1 .. j : state.agents[k].action # "unassigned"}

make_full(state) ==
  [state EXCEPT !.agents = [i \in 1 .. Len(state.agents) |->
                              [state.agents[i] EXCEPT !.action = "unassigned"]]]

\* add that leaves the pending actions of a completed round in place
successor_add_no_make_full(state, action, dest) ==
  [state EXCEPT !.agents[state.next_agent + 1].action = action,
                !.agents[state.next_agent + 1].position = dest,
                !.next_agent = (state.next_agent + 1) % Len(state.agents)]

\* The lambda add of state_successors::get
successor_add(state, action, dest) ==
  LET i == state.next_agent + 1
      st == [state EXCEPT !.agents[i].action = action,
                          !.agents[i].position = dest,
                          !.next_agent = (state.next_agent + 1) % Len(state.agents)]
  IN IF st.next_agent = 0 THEN make_full(st) ELSE st

\* The admission test without the head-on swap clause
move_possible_no_swap_check(state, destination) ==
  \A j \in AssignedPrefix(state) : destination # state.agents[j].position

\* Whether state_successors::get admits the move of the next agent to destination
move_possible(state, destination) ==
  LET agent == state.agents[state.next_agent + 1] IN
  \A j \in AssignedPrefix(state) :
    LET other_agent == state.agents[j] IN
    IF other_agent.action = "stay" THEN destination # other_agent.position
    ELSE LET came_from == translate(other_agent.position, inverse(other_agent.action)) IN
         ~ (\/ destination = other_agent.position
            \/ (destination = came_from /\ other_agent.position = agent.position))

\* needs_vacate that never asks the agent to leave its cell
needs_vacate_never(state) == FALSE

needs_vacate(state) ==
  LET agent == state.agents[state.next_agent + 1] IN
  \E j \in AssignedPrefix(state) :
    /\ state.agents[j].position = agent.position
    /\ state.agents[j].id # agent.id

state_successors_get(state) ==
  LET agent == state.agents[state.next_agent + 1]
      moves == {d \in Directions :
                  LET destination == translate(agent.position, d) IN
                  /\ in_bounds(destination)
                  /\ map_get(destination) # "wall"
                  /\ move_possible(state, destination)}
  IN {successor_add(state, d, translate(agent.position, d)) : d \in moves}
     \cup (IF needs_vacate(state) THEN {}
           ELSE {successor_add(state, "stay", agent.position)})

\* operator_decomposition::passable_not_immediate_neighbour::threshold_, in percent
threshold_ == 100

\* operator_decomposition::obstacle_threshold_, in percent: the threshold the
\* planner is constructed with
od_obstacle_threshold_ == 50

od_passable_not_immediate_neighbour(fld, from, state, w, dist) ==
  LET distance_steps == 1 + dist \div Len(state.agents) IN
  \A i \in 1 .. Len(state.agents) :
    LET agent == state.agents[i] IN
    /\ ~ (predict_obstacle(fld, <<agent.position, w.tick + distance_steps>>) > threshold_)
    /\ (world_get(w, agent.position) = "obstacle" =>
          \A j \in 1 .. Len(from.agents) :
            (/\ from.agents[j].id = agent.id
             /\ \A k \in 1 .. j - 1 : from.agents[k].id # agent.id)
            => ~neighbours(from.agents[j].position, agent.position))

\* The searches of A* over agents_state: the sequences of states from the end
\* of `sofar' (g operators applied), each successor passable, that end on the
\* goal or with bound operators applied (find_path_to_goal_or_window)
RECURSIVE StateWalks(_, _, _, _, _, _)
StateWalks(sofar, g, bound, goal, fld, w) ==
  IF Last(sofar) = goal THEN {sofar}
  ELSE IF g = bound THEN {sofar}
  ELSE UNION { StateWalks(Append(sofar, st), g + 1, bound, goal, fld, w) :
               st \in {st \in state_successors_get(Last(sofar)) :
                         od_passable_not_immediate_neighbour(fld, sofar[1], st, w, g)} }

\* The passable successors of the states of a search frontier at depth g
frontier_successors(frontier, g, from, fld, w) ==
  UNION { {st \in state_successors_get(prev) :
             od_passable_not_immediate_neighbour(fld, from, st, w, g)} :
          prev \in frontier }

\* Whether the successors at depth g no longer depend on the tick: the field
\* knows nothing of the tick they are checked at
past_horizon(g, n, fld, w) ==
  LET \* The last tick the predictor's field knows of
      field_horizon ==
        IF fld = Empty THEN 0
        ELSE CHOOSE t \in {k[2] : k \in DOMAIN fld} : \A k \in DOMAIN fld : k[2] <= t
  IN w.tick + 1 + g \div n > field_horizon

\* The frontiers of an unbounded search, depth by depth (levels[g + 1] holds the
\* states g operators away), up to the first that holds the goal; << >> when
\* the search is exhausted: a frontier is empty, or past the horizon it repeats
\* an earlier frontier of the same agent's turn
RECURSIVE frontiers(_, _, _, _, _)
frontiers(levels, goal, from, fld, w) ==
  LET g == Len(levels) - 1
      n == Len(from.agents)
      nxt == frontier_successors(levels[g + 1], g, from, fld, w)
      repeats == \E k \in 0 .. g :
                   /\ k % n = (g + 1) % n
                   /\ past_horizon(k, n, fld, w)
                   /\ levels[k + 1] = nxt
  IN IF goal \in levels[g + 1] THEN levels
     ELSE IF nxt = {} \/ repeats THEN << >>
     ELSE frontiers(Append(levels, nxt), goal, from, fld, w)

\* The states of levels[g + 1] from which the goal is d - g operators away
RECURSIVE towards_goal(_, _, _, _, _, _)
towards_goal(levels, g, goal, from, fld, w) ==
  IF g = Len(levels) - 1 THEN {goal}
  ELSE LET later == towards_goal(levels, g + 1, goal, from, fld, w) IN
       {st \in levels[g + 1] :
          frontier_successors({st}, g, from, fld, w) \cap later # {}}

\* The walks from the end of `sofar' that stay on the given layers
RECURSIVE layered_walks(_, _, _, _, _)
layered_walks(sofar, layers, from, fld, w) ==
  LET g == Len(sofar) - 1 IN
  IF g = Len(layers) - 1 THEN {sofar}
  ELSE UNION { layered_walks(Append(sofar, st), layers, from, fld, w) :
               st \in frontier_successors({Last(sofar)}, g, from, fld, w)
                        \cap layers[g + 2] }

\* The searches of find_path(w) over agents_state: the shortest walks to the goal
StateWalksToGoal(start, goal, fld, w) ==
  LET levels == frontiers(<<{start}>>, goal, start, fld, w)
      layers == [k \in 1 .. Len(levels) |->
                   towards_goal(levels, k - 1, goal, start, fld, w)]
  IN IF levels = << >> THEN {}
     ELSE layered_walks(<<start>>, layers, start, fld, w)

-----------------------------------------------------------------------------
(* state_successors::get, driven on its own from every full state *)

\* agents_state_time
AgentsStateTime(state, time) == [state |-> state, time |-> time]

FreeCells == {c \in Cells : map_get(c) = "free"}

\* The full states of n agents (ids 0 .. n - 1) on pairwise distinct free cells,
\* as replan_group builds its current_state
StartStates(n) ==
  {AgentsState([i \in 1 .. n |-> AgentRecord(pos[i], i - 1, "unassigned")], 0) :
     pos \in {q \in [1 .. n -> FreeCells] :
                \A i, j \in 1 .. n : i # j => q[i] # q[j]}}

InitSuccessors ==
  /\ solver = "successors"
  /\ agents_ = Empty
  /\ obstacles_ = Empty
  /\ tick_ = 0
  /\ err = "none"
  /\ last_call = <<"none", NoPos>>
  /\ NoDriver
  /\ NoSps
  /\ NoOd
  /\ \E n \in 1 .. MaxGroup : \E st \in StartStates(n) : node = AgentsStateTime(st, 0)
  /\ compared = Empty

\* The search expands the node: one operator is applied
Expand ==
  /\ solver \in {"successors", "partial"}
  /\ node.time < MaxOps
  /\ \E st \in state_successors_get(node.state) :
       node' = AgentsStateTime(st, node.time + 1)
  /\ compared' = Empty
  /\ UNCHANGED <<solver, worldVars, err, last_call, driverVars, spsVars, odVars>>

SpecSuccessors == InitSuccessors /\ [][Expand]_vars

-----------------------------------------------------------------------------
(* partial_state_equal, applied to the states state_successors::get produces *)

\* The values partial_record_hash combines
partial_record_hash(agent) == <<agent.position, agent.id>>

partial_record_equal(lhs, rhs) == lhs.position = rhs.position /\ lhs.id = rhs.id

\* The values partial_state_hash combines: every record's hash, then next_agent
partial_state_hash(state) ==
  <<[i \in 1 .. Len(state.agents) |-> partial_record_hash(state.agents[i])],
    state.next_agent>>

\* operator == of agents_state
agents_state_equal(lhs, rhs) ==
  lhs.next_agent = rhs.next_agent /\ lhs.agents = rhs.agents

\* Whether agent_action_to_direction accepts the action: its assertions
agent_action_to_direction_defined(aa) == aa # "stay" /\ aa # "unassigned"

\* The body of the loop of partial_state_equal for the records at index i,
\* without the look at the cells next to the pre-move positions
record_outcomes_ignoring_pre_move(lhs, rhs, i) ==
  LET l == lhs.agents[i]
      r == rhs.agents[i]
      later == i + 1 .. Len(lhs.agents)
  IN IF ~partial_record_equal(l, r) THEN {"differ"}
     ELSE IF l.action = r.action THEN {"same"}
     ELSE IF ~ (/\ agent_action_to_direction_defined(l.action)
                /\ agent_action_to_direction_defined(r.action))
     THEN {"assert", "same", "differ"}
     ELSE (IF \E j \in later : /\ lhs.agents[j].action # "unassigned"
                               /\ rhs.agents[j].action = "unassigned"
           THEN {"assert"} ELSE {})
          \cup {"same"}

\* The body of the loop of partial_state_equal for the records at index i:
\* "differ" when it returns false, "same" when it goes on to the next index,
\* "assert" when an assertion fails. An action that is no direction fails the
\* assertions of agent_action_to_direction; without assertions it is cast to a
\* direction that does not exist and the pre-move cell is anything
record_outcomes(lhs, rhs, i) ==
  LET l == lhs.agents[i]
      r == rhs.agents[i]
      pre_move(a) == translate(a.position, inverse(a.action))
      later == i + 1 .. Len(lhs.agents)
  IN IF ~partial_record_equal(l, r) THEN {"differ"}
     ELSE IF l.action = r.action THEN {"same"}
     ELSE IF ~ (/\ agent_action_to_direction_defined(l.action)
                /\ agent_action_to_direction_defined(r.action))
     THEN {"assert", "same", "differ"}
     ELSE (IF \E j \in later : /\ lhs.agents[j].action # "unassigned"
                               /\ rhs.agents[j].action = "unassigned"
           THEN {"assert"} ELSE {})
          \cup (IF \E j \in later :
                     /\ lhs.agents[j].action = "unassigned"
                     /\ \/ neighbours(lhs.agents[j].position, pre_move(l))
                        \/ neighbours(rhs.agents[j].position, pre_move(r))
                THEN {"differ"} ELSE {"same"})

\* The loop of partial_state_equal from index i on
RECURSIVE partial_state_equal_loop(_, _, _)
partial_state_equal_loop(lhs, rhs, i) ==
  IF i > Len(lhs.agents) THEN {"true"}
  ELSE LET v == record_outcomes(lhs, rhs, i) IN
       (v \cap {"assert"})
       \cup (IF "differ" \in v THEN {"false"} ELSE {})
       \cup (IF "same" \in v THEN partial_state_equal_loop(lhs, rhs, i + 1) ELSE {})

\* partial_state_equal: the outcomes of the call, "true", "false" or "assert"
partial_state_equal(lhs, rhs) ==
  IF Len(lhs.agents) # Len(rhs.agents) THEN {"false"}
  ELSE IF lhs.next_agent # rhs.next_agent THEN {"false"}
  ELSE partial_state_equal_loop(lhs, rhs, 1)

\* The full state a partial state was expanded from: every agent that has
\* moved is back on its pre-move cell and no agent holds an action
pre_move_state(state) ==
  AgentsState([i \in 1 .. Len(state.agents) |->
                 LET a == state.agents[i] IN
                 AgentRecord(IF a.action \in Directions
                             THEN translate(a.position, inverse(a.action))
                             ELSE a.position,
                             a.id, "unassigned")], 0)

\* The states k operators away from the states of `from'
RECURSIVE expansions(_, _)
expansions(from, k) ==
  IF k = 0 THEN from
  ELSE expansions(UNION {state_successors_get(s) : s \in from}, k - 1)

\* Whether state_successors::get produces the state within a round that starts
\* from a full state
produced(state) ==
  /\ LET start == pre_move_state(state) IN
       \A i \in 1 .. Len(start.agents) :
         /\ start.agents[i].position \in FreeCells
         /\ start.agents[i].id = i - 1
         /\ \A j \in 1 .. Len(start.agents) :
              i # j => start.agents[i].position # start.agents[j].position
  /\ state \in expansions({pre_move_state(state)}, state.next_agent)

\* The produced states that share the positions, ids and next_agent of the
\* state: the agents before next_agent hold an action, the others none
same_key(state) ==
  LET n == Len(state.agents)
      held(i) == IF i <= state.next_agent THEN Directions \cup {"stay"}
                 ELSE {"unassigned"}
      with(acts) == [state EXCEPT !.agents =
                       [i \in 1 .. n |-> [state.agents[i] EXCEPT !.action = acts[i]]]]
  IN {t \in {with(acts) : acts \in {f \in [1 .. n -> Directions \cup {"stay", "unassigned"}] :
                                      \A i \in 1 .. n : f[i] \in held(i)}} :
        produced(t)}

\* The states a search may compare the state with: those of its key, those
\* expanded from the same full state, and its own successors
comparable(state) ==
  same_key(state)
  \cup expansions({pre_move_state(state)}, state.next_agent)
  \cup state_successors_get(state)

InitPartial ==
  /\ solver = "partial"
  /\ agents_ = Empty
  /\ obstacles_ = Empty
  /\ tick_ = 0
  /\ err = "none"
  /\ last_call = <<"none", NoPos>>
  /\ NoDriver
  /\ NoSps
  /\ NoOd
  /\ \E n \in 2 .. MaxGroup : \E st \in StartStates(n) : node = AgentsStateTime(st, 0)
  /\ compared = Empty

\* The open set looks the node's state up: partial_state_equal is called with
\* it and a state of the set
Compare ==
  /\ solver = "partial"
  /\ \E rhs \in comparable(node.state) :
       \E verdict \in partial_state_equal(node.state, rhs) :
         compared' = [lhs |-> node.state, rhs |-> rhs, verdict |-> verdict]
  /\ UNCHANGED <<solver, worldVars, err, last_call, driverVars, spsVars, odVars, node>>

SpecPartial == InitPartial /\ [][Expand \/ Compare]_vars

-----------------------------------------------------------------------------
(* operator_decomposition: groups, plans and reservations *)

\* A group; gid stands for its list iterator (group_id)
Group(gid, plan, starting_positions) ==
  [gid |-> gid, plan |-> plan, starting_positions |-> starting_positions]

\* The planner state of operator_decomposition, as a value
OdState(groups, table, permanent, last) ==
  [groups |-> groups, table |-> table, permanent |-> permanent, last |-> last]

IsFull(state) == state.next_agent = 0

Max(a, b) == IF a > b THEN a ELSE b

\* close_full::get: whether the search may close the node
close_full(st) == st.state.next_agent = 0

\* replan_group that searches one round of operators deeper than the window
replan_group_wider(w, group, fld) ==
  LET sp == group.starting_positions
      current_state ==
        AgentsState([i \in 1 .. Len(sp) |->
                       AgentRecord(sp[i], w.agents[sp[i]].id, "unassigned")], 0)
      goal_state ==
        AgentsState([i \in 1 .. Len(sp) |->
                       AgentRecord(w.agents[sp[i]].target, w.agents[sp[i]].id,
                                   "unassigned")], 0)
      found == StateWalks(<<current_state>>, 0, (window_ + 1) * Len(sp), goal_state,
                          fld, w)
  IN IF found = {} THEN {<<current_state>>}
     ELSE {Reverse(SelectSeq(wk, IsFull)) : wk \in found}

\* replan_group that returns the search's path with its partial states
replan_group_unstripped(w, group, fld) ==
  LET sp == group.starting_positions
      current_state ==
        AgentsState([i \in 1 .. Len(sp) |->
                       AgentRecord(sp[i], w.agents[sp[i]].id, "unassigned")], 0)
      goal_state ==
        AgentsState([i \in 1 .. Len(sp) |->
                       AgentRecord(w.agents[sp[i]].target, w.agents[sp[i]].id,
                                   "unassigned")], 0)
      found == StateWalks(<<current_state>>, 0, window_ * Len(sp), goal_state, fld, w)
  IN IF found = {} THEN {<<current_state>>}
     ELSE {Reverse(wk) : wk \in found}

\* replan_group: the state its search starts from, every member in position
group_current_state(w, group) ==
  LET sp == group.starting_positions IN
  AgentsState([i \in 1 .. Len(sp) |->
                 AgentRecord(sp[i], w.agents[sp[i]].id, "unassigned")], 0)

\* replan_group: the state its search aims for, every member on its target
group_goal_state(w, group) ==
  LET sp == group.starting_positions IN
  AgentsState([i \in 1 .. Len(sp) |->
                 AgentRecord(w.agents[sp[i]].target, w.agents[sp[i]].id,
                             "unassigned")], 0)

\* replan_group: the paths its search may find when it is not cancelled
group_search(w, group, fld) ==
  IF window_ # 0
  THEN StateWalks(<<group_current_state(w, group)>>, 0,
                  window_ * Len(group.starting_positions),
                  group_goal_state(w, group), fld, w)
  ELSE StateWalksToGoal(group_current_state(w, group), group_goal_state(w, group),
                        fld, w)

\* replan_group whose plan for a group without a path stays in position twice
replan_group_staying_twice(w, group, fld) ==
  LET found == group_search(w, group, fld) IN
  IF found = {} THEN {<<group_current_state(w, group), group_current_state(w, group)>>}
  ELSE {Reverse(SelectSeq(wk, IsFull)) : wk \in found}

\* replan_group, not cancelled: the plans it may return
replan_group(w, group, fld) ==
  LET found == group_search(w, group, fld) IN
  IF found = {} THEN {<<group_current_state(w, group)>>}
  ELSE {Reverse(SelectSeq(wk, IsFull)) : wk \in found}

\* find_conflict that consults the space-time table only
find_conflict_table_only(od, to, from, time, permanent) ==
  IF <<to, time>> \in DOMAIN od.table THEN od.table[<<to, time>>].group
  ELSE IF /\ from # NoPos
          /\ <<from, time>> \in DOMAIN od.table
          /\ od.table[<<from, time>>].from = to
       THEN od.table[<<from, time>>].group
  ELSE 0

\* find_conflict: the conflicting group's gid, or 0
find_conflict(od, to, from, time, permanent) ==
  IF <<to, time>> \in DOMAIN od.table THEN od.table[<<to, time>>].group
  ELSE IF /\ from # NoPos
          /\ <<from, time>> \in DOMAIN od.table
          /\ od.table[<<from, time>>].from = to
       THEN od.table[<<from, time>>].group
  ELSE IF /\ to \in DOMAIN od.permanent
          /\ (permanent \/ od.permanent[to].from_time <= time)
       THEN od.permanent[to].group
  ELSE 0

\* find_permanent_conflict: the conflicting group's gid, or 0
find_permanent_conflict(od, pos, since) ==
  LET hits == {t \in since .. od.last - 1 : <<pos, t>> \in DOMAIN od.table} IN
  IF hits = {} THEN 0
  ELSE od.table[<<pos, CHOOSE t \in hits : \A u \in hits : t <= u>>].group

\* reserve that enters the cells of the final state only
od_reserve_final_cells_only(od, plan, gid, start) ==
  LET n == Len(plan)
      m == IF n = 0 THEN 0 ELSE Len(plan[1].agents)
      finals == IF n = 0 THEN {} ELSE {plan[1].agents[i].position : i \in 1 .. m}
  IN [od EXCEPT
        !.permanent = [pos \in DOMAIN od.permanent \cup finals |->
                         IF pos \in finals
                         THEN [group |-> gid, from_time |-> start + n]
                         ELSE od.permanent[pos]]]

\* operator_decomposition::reserve
od_reserve(od, plan, gid, start) ==
  LET n == Len(plan)
      m == IF n = 0 THEN 0 ELSE Len(plan[1].agents)
      \* the state visited at tick start + k is plan[n - k]
      keys == {<<plan[n - k].agents[i].position, start + k>> :
                 k \in 0 .. n - 1, i \in 1 .. m}
      rec(key) ==
        LET k == key[2] - start
            i == CHOOSE i \in 1 .. m : plan[n - k].agents[i].position = key[1]
        IN [group |-> gid,
            from |-> IF k > 0 THEN plan[n - k + 1].agents[i].position ELSE NoPos]
      finals == IF n = 0 THEN {} ELSE {plan[1].agents[i].position : i \in 1 .. m}
  IN [od EXCEPT
        !.table = [key \in DOMAIN od.table \cup keys |->
                     IF key \in keys THEN rec(key) ELSE od.table[key]],
        !.last = IF n = 0 THEN od.last ELSE Max(start + n - 1, od.last),
        !.permanent = [pos \in DOMAIN od.permanent \cup finals |->
                         IF pos \in finals
                         THEN [group |-> gid, from_time |-> start + n]
                         ELSE od.permanent[pos]]]

\* unreserve that clears the space-time table only
od_unreserve_table_only(od, gid) ==
  [od EXCEPT
     !.table = [k \in {k \in DOMAIN od.table : od.table[k].group # gid} |->
                  od.table[k]]]

\* operator_decomposition::unreserve
od_unreserve(od, gid) ==
  [od EXCEPT
     !.table = [k \in {k \in DOMAIN od.table : od.table[k].group # gid} |->
                  od.table[k]],
     !.permanent = [k \in {k \in DOMAIN od.permanent : od.permanent[k].group # gid} |->
                      od.permanent[k]]]

RECURSIVE unreserve_all(_, _)
unreserve_all(od, gids) ==
  IF gids = << >> THEN od
  ELSE unreserve_all(od_unreserve(od, Head(gids)), Tail(gids))

RECURSIVE concat_starts(_, _)
concat_starts(od, gids) ==
  IF gids = << >> THEN << >>
  ELSE LET i == CHOOSE i \in 1 .. Len(od.groups) : od.groups[i].gid = Head(gids) IN
       od.groups[i].starting_positions \o concat_starts(od, Tail(gids))

\* merge_groups that leaves the reservations of the groups in place
merge_groups_keeping_reservations(od, gids) ==
  LET target == Head(gids)
      erased == {gids[i] : i \in 2 .. Len(gids)}
      merged == Group(target, << >>, concat_starts(od, gids))
      kept == SelectSeq([i \in 1 .. Len(od.groups) |->
                           IF od.groups[i].gid = target THEN merged ELSE od.groups[i]],
                        LAMBDA g : g.gid \notin erased)
  IN [od EXCEPT !.groups = kept]

\* merge_groups: the first group of the list takes the members of the others
merge_groups(od, gids) ==
  LET target == Head(gids)
      erased == {gids[i] : i \in 2 .. Len(gids)}
      od1 == unreserve_all(od, gids)
      merged == Group(target, << >>, concat_starts(od, gids))
      kept == SelectSeq([i \in 1 .. Len(od.groups) |->
                           IF od.groups[i].gid = target THEN merged ELSE od.groups[i]],
                        LAMBDA g : g.gid \notin erased)
  IN [od1 EXCEPT !.groups = kept]

\* The conflicts replan_groups collects for a new plan, in the order found
RECURSIVE collect_conflicts(_, _, _, _, _, _)
collect_conflicts(od, plan, start, k, i, conflicts) ==
  LET n == Len(plan)
      m == Len(plan[1].agents) IN
  IF k = n THEN conflicts
  ELSE IF i > m THEN collect_conflicts(od, plan, start, k + 1, 1, conflicts)
  ELSE
    LET agent == plan[n - k].agents[i]
        is_last == (k = n - 1)
        c1 == find_conflict(od, agent.position,
                            IF k > 0 THEN plan[n - k + 1].agents[i].position ELSE NoPos,
                            start + k, is_last)
        c2 == IF c1 = 0 /\ is_last
              THEN find_permanent_conflict(od, agent.position, start + k) ELSE c1
        seen == \E x \in 1 .. Len(conflicts) : conflicts[x] = c2
    IN collect_conflicts(od, plan, start, k, i + 1,
                         IF c2 # 0 /\ ~seen THEN Append(conflicts, c2) ELSE conflicts)

\* Whether a search bounded by `bound' operators runs out of states before it
\* meets the goal or the bound, `frontier' being the states g operators away
RECURSIVE search_exhausted(_, _, _, _, _, _, _)
search_exhausted(frontier, g, bound, goal, from, fld, w) ==
  IF frontier = {} THEN TRUE
  ELSE IF goal \in frontier \/ g = bound THEN FALSE
  ELSE search_exhausted(frontier_successors(frontier, g, from, fld, w), g + 1, bound,
                        goal, from, fld, w)

\* How the search of replan_group ends when it is not cancelled: whether its
\* result is empty
search_of(w, group, fld) ==
  LET start == group_current_state(w, group)
      goal == group_goal_state(w, group)
      nothing == IF window_ # 0
                 THEN search_exhausted({start}, 0,
                                       window_ * Len(group.starting_positions), goal,
                                       start, fld, w)
                 ELSE frontiers(<<{start}>>, goal, start, fld, w) = << >>
  IN IF nothing THEN "nothing" ELSE "found"

\* The group the loop of replan_groups plans next: the first whose plan is empty
next_group(od) ==
  CHOOSE i \in 1 .. Len(od.groups) :
    /\ od.groups[i].plan = << >>
    /\ \A j \in 1 .. i - 1 : od.groups[j].plan # << >>

\* One iteration of the loop of replan_groups, not cancelled: the set of
\* [od |-> planner state after, conflicted |-> whether replan_groups returns
\* true here] it may end in
replan_groups_iteration(od, w, fld) ==
  LET gi == next_group(od)
      group == od.groups[gi]
      iteration(plan, search) ==
        LET od1 == [od EXCEPT !.groups[gi].plan = plan]
            conflicts == collect_conflicts(od1, plan, w.tick, 0, 1, << >>)
        IN IF conflicts = << >>
           THEN [od |-> od_reserve(od1, plan, group.gid, w.tick), conflicted |-> FALSE,
                 search |-> search]
           ELSE [od |-> merge_groups(od1, Append(conflicts, group.gid)),
                 conflicted |-> TRUE, search |-> search]
  IN UNION { {iteration(plan, search) : plan \in replan_group(w, group, fld)} :
             search \in {search_of(w, group, fld)} }

\* operator_decomposition::final
final(state, w) ==
  \A i \in 1 .. Len(state.agents) :
    w.agents[state.agents[i].position].target = state.agents[i].position

\* enum class admissibility, in its order
admissibility == <<"admissible", "incomplete", "invalid">>

\* std::max over admissibility
max_admissibility(a, b) ==
  LET rank(x) == CHOOSE k \in 1 .. 3 : admissibility[k] = x IN
  IF rank(a) < rank(b) THEN b ELSE a

\* The loop of plans_admissible in which the last short plan decides
RECURSIVE plans_admissible_last_decides(_, _, _, _)
plans_admissible_last_decides(od, w, i, verdict) ==
  IF i > Len(od.groups) THEN verdict
  ELSE
    LET plan == od.groups[i].plan IN
    IF Len(plan) < 2
    THEN plans_admissible_last_decides(od, w, i + 1,
                                       IF plan = << >> \/ ~final(plan[1], w)
                                       THEN "incomplete" ELSE "admissible")
    ELSE IF \E a \in 1 .. Len(plan[Len(plan) - 1].agents) :
              world_get(w, plan[Len(plan) - 1].agents[a].position) = "obstacle"
    THEN "invalid"
    ELSE plans_admissible_last_decides(od, w, i + 1, verdict)

\* plans_admissible whose verdict on short plans is that of the last one
plans_admissible_without_max(od, w) ==
  plans_admissible_last_decides(od, w, 1, "admissible")

\* The loop of plans_admissible from group i on, `verdict' being its verdict so far
RECURSIVE plans_admissible_loop(_, _, _, _)
plans_admissible_loop(od, w, i, verdict) ==
  IF i > Len(od.groups) THEN verdict
  ELSE
    LET plan == od.groups[i].plan IN
    IF Len(plan) < 2
    THEN plans_admissible_loop(od, w, i + 1,
                               IF plan = << >> \/ ~final(plan[1], w)
                               THEN max_admissibility(verdict, "incomplete")
                               ELSE verdict)
    ELSE IF \E a \in 1 .. Len(plan[Len(plan) - 1].agents) :
              world_get(w, plan[Len(plan) - 1].agents[a].position) = "obstacle"
    THEN "invalid"
    ELSE plans_admissible_loop(od, w, i + 1, verdict)

\* operator_decomposition::plans_admissible
plans_admissible(od, w) == plans_admissible_loop(od, w, 1, "admissible")

-----------------------------------------------------------------------------
(* operator_decomposition::step *)

\* make_action: the moves between two consecutive states of a plan
make_action(from, to) ==
  {Action(from.agents[i].position,
          direction_to(from.agents[i].position, to.agents[i].position)) :
     i \in {i \in 1 .. Len(from.agents) :
              from.agents[i].position # to.agents[i].position}}

\* apply(joint_action, world): all listed agents move at once
apply_joint(acts, w) ==
  LET movers == {a.from : a \in acts}
      dest(a) == translate(a.from, a.dir)
      rest == [p \in DOMAIN w.agents \ movers |-> w.agents[p]]
      w1 == [w EXCEPT !.agents = rest]
      ok == /\ movers \subseteq DOMAIN w.agents
            /\ \A a \in acts : in_bounds(dest(a)) /\ world_get(w1, dest(a)) = "free"
            /\ \A a, b \in acts : a # b => dest(a) # dest(b)
  IN IF ~ok THEN Throw(w)
     ELSE Ok([w EXCEPT !.agents =
                [p \in DOMAIN rest \cup {dest(a) : a \in acts} |->
                   IF p \in DOMAIN rest THEN rest[p]
                   ELSE w.agents[(CHOOSE a \in acts : dest(a) = p).from]]])

TheOd == OdState(groups_, reservation_table_, permanent_reservation_table_,
                 last_nonpermanent_reservation_)

SetOd(od) ==
  /\ groups_' = od.groups
  /\ reservation_table_' = od.table
  /\ permanent_reservation_table_' = od.permanent
  /\ last_nonpermanent_reservation_' = od.last

\* The tail of step that moves the agents on and pops no state of a plan
od_emit_without_pop(od, w) ==
  LET moving == {i \in 1 .. Len(od.groups) : Len(od.groups[i].plan) >= 2}
      acts == UNION {LET plan == od.groups[i].plan IN
                     make_action(plan[Len(plan)], plan[Len(plan) - 1]) : i \in moving}
  IN [od |-> od, acts |-> acts, r |-> apply_joint(acts, w)]

\* The tail of step: every group with a next state moves on to it
od_emit(od, w) ==
  LET moving == {i \in 1 .. Len(od.groups) : Len(od.groups[i].plan) >= 2}
      acts == UNION {LET plan == od.groups[i].plan IN
                     make_action(plan[Len(plan)], plan[Len(plan) - 1]) : i \in moving}
      groups == [i \in 1 .. Len(od.groups) |->
                   IF i \in moving
                   THEN [od.groups[i] EXCEPT
                           !.plan = SubSeq(od.groups[i].plan, 1,
                                           Len(od.groups[i].plan) - 1)]
                   ELSE od.groups[i]]
  IN [od |-> [od EXCEPT !.groups = groups], acts |-> acts, r |-> apply_joint(acts, w)]

\* The sequences that list every element of S once
RECURSIVE Orders(_)
Orders(S) ==
  IF S = {} THEN {<< >>}
  ELSE UNION {{<<x>> \o o : o \in Orders(S \ {x})} : x \in S}

Emit(od) ==
  LET e == od_emit(od, TheWorld) IN
  /\ SetOd(e.od)
  /\ SetWorld(e.r)
  /\ result' = e.acts
  /\ pc' = "returned"

InitOd ==
  /\ solver = "od"
  /\ \E w \in Scenarios :
       /\ agents_ = w.agents
       /\ obstacles_ = w.obstacles
       /\ tick_ = w.tick
  /\ err = "none"
  /\ last_call = <<"none", NoPos>>
  /\ NoDriver
  /\ NoOd
  /\ NoNode
  /\ window_ \in 0 .. MaxWindow
  /\ rejoin_limit_ = 0
  /\ paths_ = Empty
  /\ agent_reservations_ = Empty
  /\ field \in Fields
  /\ last_find = Empty
  /\ times_without_path_ = 0
  /\ data_ = Empty

\* step that counts every replan as one caused by an invalid plan
OdStepCountingEveryReplan ==
  /\ solver = "od"
  /\ pc = "idle"
  /\ err = "none"
  /\ should_stop_' = FALSE
  /\ LET ad == plans_admissible(TheOd, TheWorld) IN
     IF groups_ = << >> \/ ad # "admissible"
     THEN /\ plan_invalid_' = plan_invalid_ + 1
          /\ \E order \in Orders(DOMAIN agents_) :
               groups_' = [i \in 1 .. Len(order) |-> Group(i, << >>, <<order[i]>>)]
          /\ reservation_table_' = Empty
          /\ permanent_reservation_table_' = Empty
          /\ last_nonpermanent_reservation_' = 0
          /\ replan_groups_calls' = 1
          /\ last_replan_group' = [group |-> << >>, search |-> "none"]
          /\ pc' = "replan"
          /\ UNCHANGED <<worldVars, err, result>>
     ELSE /\ Emit(TheOd)
          /\ UNCHANGED <<plan_invalid_, replan_groups_calls, last_replan_group>>
  /\ UNCHANGED <<solver, searchVars, last_call, todo, spsVars>>

\* step, up to the call of replan: the flag is reset; the plans in hand are kept
\* and emitted, or replan discards them and starts from singleton groups
OdStep ==
  /\ solver = "od"
  /\ pc = "idle"
  /\ err = "none"
  /\ should_stop_' = FALSE
  /\ LET ad == plans_admissible(TheOd, TheWorld) IN
     IF groups_ = << >> \/ ad # "admissible"
     THEN /\ plan_invalid_' = IF ad = "invalid" THEN plan_invalid_ + 1 ELSE plan_invalid_
          /\ \E order \in Orders(DOMAIN agents_) :
               groups_' = [i \in 1 .. Len(order) |-> Group(i, << >>, <<order[i]>>)]
          /\ reservation_table_' = Empty
          /\ permanent_reservation_table_' = Empty
          /\ last_nonpermanent_reservation_' = 0
          /\ replan_groups_calls' = 1
          /\ last_replan_group' = [group |-> << >>, search |-> "none"]
          /\ pc' = "replan"
          /\ UNCHANGED <<worldVars, err, result>>
     ELSE /\ Emit(TheOd)
          /\ UNCHANGED <<plan_invalid_, replan_groups_calls, last_replan_group>>
  /\ UNCHANGED <<solver, searchVars, last_call, todo, spsVars>>

HasEmptyPlan == \E i \in 1 .. Len(groups_) : groups_[i].plan = << >>

\* One iteration of the loop of replan_groups
OdReplanGroup ==
  /\ solver = "od"
  /\ pc = "replan"
  /\ ~should_stop_
  /\ HasEmptyPlan
  /\ \E o \in replan_groups_iteration(TheOd, TheWorld, field) :
       /\ SetOd(o.od)
       \* a pass that reports a conflict is followed by another call
       /\ replan_groups_calls' = IF o.conflicted THEN replan_groups_calls + 1
                                 ELSE replan_groups_calls
       /\ last_replan_group' = [group |-> groups_[next_group(TheOd)],
                                search |-> o.search]
  /\ UNCHANGED <<solver, searchVars, worldVars, err, last_call, driverVars, spsVars, should_stop_,
                 plan_invalid_>>

\* replan is over: step emits the first joint step of every group
OdEmit ==
  /\ solver = "od"
  /\ pc = "replan"
  /\ ~should_stop_
  /\ ~HasEmptyPlan
  /\ Emit(TheOd)
  /\ UNCHANGED <<solver, searchVars, last_call, todo, spsVars, should_stop_, plan_invalid_,
                 replan_groups_calls, last_replan_group>>

\* Another thread raises the cancellation flag while step is replanning
Kill ==
  /\ solver = "od"
  /\ pc = "replan"
  /\ ~should_stop_
  /\ should_stop_' = TRUE
  /\ UNCHANGED <<solver, searchVars, worldVars, err, last_call, driverVars, spsVars, groups_,
                 reservation_table_, permanent_reservation_table_,
                 last_nonpermanent_reservation_, plan_invalid_, replan_groups_calls,
                 last_replan_group>>

\* A cancelled step that runs the tail of step all the same
OdCancelledEmits ==
  /\ solver = "od"
  /\ pc = "replan"
  /\ should_stop_
  /\ Emit(TheOd)
  /\ UNCHANGED <<solver, searchVars, last_call, todo, spsVars, should_stop_, plan_invalid_,
                 replan_groups_calls, last_replan_group>>

\* The flag is seen set and step returns before its tail. Either the search or
\* replan_group sees it and returns empty, or replan_group has returned its
\* plan already and replan_groups sees it, before the plan is checked for
\* conflicts or reserved; replan_groups returns false and the loop of replan ends
OdCancelled ==
  /\ solver = "od"
  /\ pc = "replan"
  /\ should_stop_
  /\ \/ /\ UNCHANGED groups_
        /\ last_replan_group' = IF HasEmptyPlan
                                THEN [group |-> groups_[next_group(TheOd)],
                                      search |-> "cancelled"]
                                ELSE last_replan_group
     \/ /\ HasEmptyPlan
        /\ \E search \in {search_of(TheWorld, groups_[next_group(TheOd)], field)} :
             \E plan \in replan_group(TheWorld, groups_[next_group(TheOd)], field) :
               /\ groups_' = [groups_ EXCEPT ![next_group(TheOd)].plan = plan]
               /\ last_replan_group' = [group |-> groups_[next_group(TheOd)],
                                        search |-> search]
  /\ pc' = "returned"
  /\ result' = {}
  /\ UNCHANGED <<solver, searchVars, worldVars, err, last_call, todo, spsVars,
                 reservation_table_, permanent_reservation_table_,
                 last_nonpermanent_reservation_, should_stop_, plan_invalid_,
                 replan_groups_calls>>

SpecOd ==
  InitOd
  /\ [][OdStep \/ OdReplanGroup \/ OdEmit \/ Kill \/ OdCancelled \/ DriverNextTick]_vars

-----------------------------------------------------------------------------
(* Every planner, each started on every scenario *)

Init == InitGreedy \/ InitLra \/ InitWhca \/ InitOd

Next ==
  \/ GetAction
  \/ GreedyIteration
  \/ SpsIteration
  \/ Return
  \/ OdStep
  \/ OdReplanGroup
  \/ OdEmit
  \/ Kill
  \/ OdCancelled
  \/ DriverNextTick

Spec == Init /\ [][Next]_vars

-----------------------------------------------------------------------------
(* cooperative_a_star::rejoin_path on its own *)

\* Cells of the longest old path rejoin_path is given.
MaxOldPath == 3

\* The walkable routes that extend `sofar' by at most n cells
RECURSIVE Routes(_, _)
Routes(sofar, n) ==
  {sofar} \cup
    (IF n = 0 THEN {}
     ELSE UNION { Routes(Append(sofar, q), n - 1) :
                  q \in {q \in FreeCells : q = Last(sofar) \/ neighbours(q, Last(sofar))} })

\* The remainders of a path an agent at `from' may hold when its next step
\* turns out invalid: stored goal first, the invalid step at the back
OldPaths(from) ==
  UNION { {Reverse(r) : r \in Routes(<<q>>, MaxOldPath - 1)} :
          q \in {q \in FreeCells : neighbours(q, from)} }

\* get_action has found the next step of agent 0 invalid: an obstacle stands on
\* it, and maybe on further cells of the path; another agent may hold a cell
InitRejoin ==
  /\ solver = "rejoin"
  /\ tick_ = 1
  /\ \E from \in FreeCells :
       \E old \in OldPaths(from) :
         \E blocked \in SUBSET {old[i] : i \in 1 .. Len(old)} :
           /\ agents_ = (from :> Agent(0, old[1]))
           /\ obstacles_ = [c \in ({Last(old)} \cup blocked) \ {from} |-> Obstacle(1)]
           /\ paths_ = (0 :> old)
  /\ \E c \in FreeCells \cup {NoPos} :
       agent_reservations_ = IF c = NoPos THEN Empty
                             ELSE (<<c, tick_ + 1>> :> [agent |-> 1, from |-> NoPos])
  /\ window_ = MaxWindow
  /\ rejoin_limit_ \in 1 .. MaxRejoin
  /\ field = Empty
  /\ last_find = Empty
  /\ times_without_path_ = 0
  /\ data_ = Empty
  /\ err = "none"
  /\ last_call = <<"none", NoPos>>
  /\ NoDriver
  /\ NoOd
  /\ NoNode

\* The old path is moved out of paths_ and handed to rejoin_path
Rejoin ==
  /\ solver = "rejoin"
  /\ \E from \in DOMAIN agents_ :
       LET a == agents_[from] IN
       /\ a.id \in DOMAIN paths_
       /\ \E p \in rejoin_path(agent_reservations_, TheWorld, from, paths_[a.id]) :
            last_find' = [agent |-> a.id, kind |-> "rejoin", path |-> p,
                          tick |-> tick_, old_path |-> paths_[a.id], from |-> from]
       /\ paths_' = Drop(paths_, a.id)
  /\ UNCHANGED <<solver, worldVars, err, last_call, driverVars, window_, rejoin_limit_,
                 agent_reservations_, field, times_without_path_, data_, odVars, searchVars>>

SpecRejoin == InitRejoin /\ [][Rejoin]_vars

-----------------------------------------------------------------------------
(* lra::find_path on its own *)

\* Latest tick lra::find_path is called at.
MaxRecalcTick == 6

\* Largest agitation an agent has gathered before the call.
MaxAgitation == 3

\* One agent, away from its target or on it, whose agent_data is absent or
\* holds an earlier recalculation
InitLraFindPath ==
  /\ solver = "lra_find_path"
  /\ tick_ \in 0 .. MaxRecalcTick
  /\ \E target \in {<<0, 0>>, <<2, 0>>} : agents_ = (<<0, 0>> :> Agent(0, target))
  /\ obstacles_ = Empty
  /\ data_ \in {Empty} \cup {(0 :> AgentData(l, g)) : l \in 0 .. tick_, g \in 0 .. MaxAgitation}
  /\ window_ = 0
  /\ rejoin_limit_ = 0
  /\ paths_ = (0 :> << >>)
  /\ agent_reservations_ = Empty
  /\ field = Empty
  /\ last_find = Empty
  /\ times_without_path_ = 0
  /\ err = "none"
  /\ last_call = <<"none", NoPos>>
  /\ NoDriver
  /\ NoOd
  /\ NoNode

LraFindPath ==
  /\ solver = "lra_find_path"
  /\ pc = "idle"
  /\ \E from \in DOMAIN agents_ :
       \E o \in lra_find_path(TheSolver, TheWorld, from) :
         /\ SetSolver(o.s)
         /\ pc' = IF o.s.aborted THEN "aborted" ELSE "returned"
  /\ UNCHANGED <<solver, worldVars, err, last_call, todo, result, window_, rejoin_limit_,
                 odVars, searchVars>>

SpecLraFindPath == InitLraFindPath /\ [][LraFindPath]_vars

-----------------------------------------------------------------------------
(* Properties *)

\* The ids of the agents of the world, one per occupied cell
AgentIdsOf(a) == {a[p].id : p \in DOMAIN a}

Min(a, b) == IF a < b THEN a ELSE b

C2_AppliedActionsValid ==
  solver \in {"lra", "whca"} => err = "none"

\* The step of a path recalculated (here rejoined) after an invalid cached step
\* has been applied
C2_Witness ==
  /\ solver = "whca"
  /\ last_find # Empty
  /\ last_find.kind = "rejoin"
  /\ \E a \in result :
       /\ translate(a.from, a.dir) \in DOMAIN agents_
       /\ agents_[translate(a.from, a.dir)].id = last_find.agent
       /\ a.from = last_find.path[Len(last_find.path)]

\* The cell the path held for agent id puts it on, j ticks after the joint
\* action of this tick is applied
HeldPos(id, j) == paths_[id][Len(paths_[id]) - j]

\* C3: in WHCA*, when get_action has returned, the paths held for two distinct
\* agents never put both on one cell at one tick and never make them swap
\* cells across one tick.
C3_HeldPathsNeverCollide ==
  (solver = "whca" /\ pc = "returned") =>
    \A a, b \in DOMAIN paths_ :
      a # b =>
        LET n == Min(Len(paths_[a]), Len(paths_[b])) IN
        /\ \A j \in 0 .. n - 1 : HeldPos(a, j) # HeldPos(b, j)
        /\ \A j \in 0 .. n - 2 :
             ~ (HeldPos(a, j + 1) = HeldPos(b, j) /\ HeldPos(b, j + 1) = HeldPos(a, j))

\* The position of agent i of group g, k ticks after the replan: the plan's
\* state for that tick, and its final state from then on
PlanPos(g, i, k) == g.plan[Max(1, Len(g.plan) - k)].agents[i].position

\* The ticks the longest plan covers
PlanHorizon == MaxWindow + 1

\* C4: in OD, when replan has completed, for any two distinct groups the plans
\* never put two agents on one cell at one tick, counting an agent as parked
\* on its final cell from its arrival on, never swap two agents across one
\* tick, and every final cell is permanently reserved by its own group only.
C4_ReservedPlansDisjoint ==
  (solver = "od" /\ pc = "replan" /\ ~HasEmptyPlan) =>
    /\ \A x, y \in 1 .. Len(groups_) :
         x # y =>
           LET g == groups_[x]
               h == groups_[y] IN
           \A i \in 1 .. Len(g.starting_positions), j \in 1 .. Len(h.starting_positions) :
             \A k \in 0 .. PlanHorizon :
               /\ PlanPos(g, i, k) # PlanPos(h, j, k)
               /\ ~ (/\ PlanPos(g, i, k + 1) = PlanPos(h, j, k)
                     /\ PlanPos(h, j, k + 1) = PlanPos(g, i, k))
    /\ \A x \in 1 .. Len(groups_) :
         \A i \in 1 .. Len(groups_[x].starting_positions) :
           LET c == PlanPos(groups_[x], i, PlanHorizon) IN
           /\ c \in DOMAIN permanent_reservation_table_
           /\ permanent_reservation_table_[c].group = groups_[x].gid

\* Replan has completed with two groups, one of which parks before the other
\* has finished moving
C4_Witness ==
  /\ solver = "od"
  /\ pc = "replan"
  /\ ~HasEmptyPlan
  /\ Len(groups_) = 2
  /\ Len(groups_[1].plan) # Len(groups_[2].plan)
  /\ Len(groups_[1].plan) >= 2
  /\ Len(groups_[2].plan) >= 2

\* C5: after any sequence of put_agent, remove_agent, put_obstacle,
\* remove_obstacle and next_tick, no cell holds more than one entity: no agent
\* is on an obstacle's cell or on a wall and no obstacle is on a wall.
C5_OneEntityPerCell ==
  solver = "world" =>
    /\ \A p \in DOMAIN agents_ :
         in_bounds(p) /\ p \notin DOMAIN obstacles_ /\ map_get(p) # "wall"
    /\ \A p \in DOMAIN obstacles_ : in_bounds(p) /\ map_get(p) # "wall"
    /\ Cardinality(DOMAIN agents_) + Cardinality(DOMAIN obstacles_)
         = Cardinality(DOMAIN agents_ \cup DOMAIN obstacles_)

\* next_tick has moved an obstacle in a world that also holds an agent
C5_Witness ==
  /\ solver = "world"
  /\ last_call[1] = "next_tick"
  /\ DOMAIN agents_ # {}
  /\ \E p \in DOMAIN obstacles_ : obstacles_[p].next_move > tick_

\* Whether the call named by `call' on cell p is one the world must refuse
Refused(call, p) ==
  \/ call \in {"put_agent", "put_obstacle"} /\ world_get(TheWorld, p) # "free"
  \/ call = "remove_agent" /\ p \notin DOMAIN agents_
  \/ call = "remove_obstacle" /\ p \notin DOMAIN obstacles_

\* C6: put_agent or put_obstacle on a cell that is not free, and remove_agent
\* or remove_obstacle on a cell without that entity, raise logic_error and
\* leave agents, obstacles and tick as they were.
C6_RefusedCallsLeaveWorld ==
  [][(solver = "world" /\ Refused(last_call'[1], last_call'[2]))
       => (err' = "logic_error" /\ UNCHANGED worldVars)]_vars

\* A put on an occupied cell was refused in a world that holds an agent and an
\* obstacle
C6_Witness ==
  /\ solver = "world"
  /\ err = "logic_error"
  /\ last_call[1] \in {"put_agent", "put_obstacle"}
  /\ last_call[2] \in DOMAIN agents_ \cup DOMAIN obstacles_
  /\ DOMAIN agents_ # {}
  /\ DOMAIN obstacles_ # {}

\* C7: after find_path of WHCA* has returned a non-empty path for an agent at
\* tick T, from the rejoin attempt or from the primary search, the reservation
\* table holds, for every cell of the path, an entry owned by the agent at the
\* tick the path visits the cell.
C7_ReservationClosure ==
  (solver = "whca" /\ last_find # Empty /\ last_find.path # << >>) =>
    LET path == last_find.path
        n == Len(path) IN
    \A d \in 0 .. n - 1 :
      /\ <<path[n - d], last_find.tick + d>> \in DOMAIN agent_reservations_
      /\ agent_reservations_[<<path[n - d], last_find.tick + d>>].agent = last_find.agent

\* The owners of the entries of a WHCA* table, and of the two tables of OD
Owners(res) == {res[k].agent : k \in DOMAIN res}

GroupOwners(table) == {table[k].group : k \in DOMAIN table}

\* f and g agree on the entries of f that pick keeps, and g has no others
SameExcept(f, g, dropped(_)) ==
  /\ DOMAIN g = {k \in DOMAIN f : ~dropped(f[k])}
  /\ \A k \in DOMAIN g : g[k] = f[k]

\* C8: unreserve(owner) removes every entry of that owner from every
\* reservation table of the planner (in OD the space-time and the permanent
\* table) and leaves the entries of every other owner as they were.
C8_UnreserveRemovesOwnerOnly ==
  /\ \A a \in AgentIds :
       SameExcept(agent_reservations_, unreserve(agent_reservations_, a),
                  LAMBDA e : e.agent = a)
  /\ \A gid \in 1 .. 2 :
       LET od == od_unreserve(TheOd, gid) IN
       /\ SameExcept(reservation_table_, od.table, LAMBDA e : e.group = gid)
       /\ SameExcept(permanent_reservation_table_, od.permanent, LAMBDA e : e.group = gid)
       /\ od.groups = groups_
       /\ od.last = last_nonpermanent_reservation_

\* Two groups of OD own entries in both tables
C8_Witness ==
  /\ solver = "od"
  /\ GroupOwners(reservation_table_) = {1, 2}
  /\ GroupOwners(permanent_reservation_table_) = {1, 2}

\* The last tick at which agent a holds a reservation
LastReserved(a) ==
  LET ticks == {k[2] : k \in {k \in DOMAIN agent_reservations_ :
                                agent_reservations_[k].agent = a}}
  IN CHOOSE t \in ticks : \A u \in ticks : u <= t

\* C9: in WHCA*, once a path is planned for agent a at tick T its final cell
\* stays reserved for a from from_time = T + len(path) on: a search made later
\* for another agent never steps into that cell at a tick t >= from_time.
C9_FinalCellReservedForGood ==
  (solver = "whca" /\ last_find # Empty /\ last_find.kind = "primary"
     /\ last_find.path # << >>) =>
    LET path == last_find.path
        n == Len(path) IN
    \A a \in Owners(agent_reservations_) \ {last_find.agent} :
      LET from_time == LastReserved(a) + 1
          final_cell == CHOOSE c \in Cells :
                     /\ <<c, from_time - 1>> \in DOMAIN agent_reservations_
                     /\ agent_reservations_[<<c, from_time - 1>>].agent = a
      IN \A d \in 1 .. n - 1 :
           last_find.tick + d >= from_time => path[n - d] # final_cell

\* C10: in WHCA* with a predictor and a threshold below 1, no path find_path
\* adopts, from the primary search or from the rejoin attempt, visits a cell
\* at a tick for which the predictor gives a probability above the threshold.
C10_NoPredictedCellOnPath ==
  (solver = "whca" /\ last_find # Empty) =>
    LET path == last_find.path
        n == Len(path) IN
    \A d \in 0 .. n - 1 :
      predict_obstacle(field, <<path[n - d], last_find.tick + d>>) <= obstacle_threshold_


\* The agent an action of the joint action moved, where it now stands
MovedTo(a) == translate(a.from, a.dir)

\* C11: when the cancellation flag is seen set during the replanning phase of
\* operator_decomposition::step, the step returns without applying an action:
\* agents, obstacles and tick of the world are unchanged and no state is
\* popped from the plan of any group (a group without a plan may be left with
\* the plan its search had returned before the flag was seen).
C11_CancelledStepChangesNothing ==
  [][(solver = "od" /\ pc = "replan" /\ should_stop_) =>
       (/\ UNCHANGED worldVars
        /\ Len(groups_') = Len(groups_)
        /\ \A i \in 1 .. Len(groups_) :
             /\ groups_'[i].starting_positions = groups_[i].starting_positions
             /\ groups_'[i].plan = groups_[i].plan \/ groups_[i].plan = << >>
        /\ result' = {}
        /\ pc' = "returned")]_vars

\* A step was cancelled while a group held a plan with a next state to pop
C11_Witness ==
  /\ solver = "od"
  /\ pc = "returned"
  /\ should_stop_
  /\ \E i \in 1 .. Len(groups_) : Len(groups_[i].plan) >= 2

\* C12: for every planner and every tick, an agent that stands on its goal at
\* the start of the tick has no action in the emitted joint action.
C12_NoActionForAgentAtGoal ==
  (pc = "returned" /\ err = "none") =>
    \A a \in result :
      MovedTo(a) \in DOMAIN agents_ => agents_[MovedTo(a)].target # a.from

\* C12, amended: under greedy and LRA*, an agent that stands on its goal at the
\* start of the tick has no action in the emitted joint action.
C12_NoActionForAgentAtGoalBaselines ==
  (solver \in {"greedy", "lra"} /\ pc = "returned" /\ err = "none") =>
    \A a \in result :
      MovedTo(a) \in DOMAIN agents_ => agents_[MovedTo(a)].target # a.from

\* A baseline planner moved an agent while another stayed parked on its goal
C12_Witness ==
  /\ solver \in {"greedy", "lra"}
  /\ pc = "returned"
  /\ result # {}
  /\ \E p \in DOMAIN agents_ :
       /\ agents_[p].target = p
       /\ \A a \in result : MovedTo(a) # p

\* C13: in LRA*/WHCA*, whenever the path calculation for an agent off its
\* target yields no usable path (fewer than two cells), the agent gets no
\* action, times_without_path_ grows by exactly one and the cache is left so
\* that the next tick calculates again; for the first calculation of the tick
\* and for the recalculation after an invalid cached step alike.
C13_NoPathCountedOnce ==
  [][(/\ solver \in {"lra", "whca"}
      /\ pc = "loop"
      /\ todo' # todo
      /\ last_find' # Empty
      /\ Len(last_find'.path) < 2
      /\ LET pos == PosOf(TheWorld, last_find'.agent) IN agents_[pos].target # pos)
     => (/\ result' = result
         /\ times_without_path_' = times_without_path_ + 1
         /\ Len(paths_'[last_find'.agent]) < 2)]_vars

\* C14: in OD with window_ = W > 0 the plan replan_group returns for a group
\* of n agents holds at most W * n full states; with window_ = 0 the search
\* runs to the goal without a depth bound.
C14_PlanWithinWindowTimesGroup ==
  (solver = "od" /\ pc = "replan") =>
    \A i \in 1 .. Len(groups_) :
      LET plan == groups_[i].plan IN
      (plan # << >> /\ window_ > 0) => Len(plan) <= window_ * Len(plan[1].agents)

\* C14, amended: with window_ = W > 0 the plan holds at most W + 1 full
\* states, the current state and one for each tick of the window; with
\* window_ = 0 the plan either ends on the goal state or is the single
\* current state of a search that found no path.
C14_PlanWithinWindowPlusOne ==
  (solver = "od" /\ pc = "replan") =>
    \A i \in 1 .. Len(groups_) :
      LET plan == groups_[i].plan IN
      plan # << >> =>
        /\ window_ > 0 => Len(plan) <= window_ + 1
        /\ window_ = 0 =>
             \/ Len(plan) = 1
             \/ \A a \in 1 .. Len(plan[1].agents) :
                  LET now == plan[Len(plan)].agents[a].position IN
                  plan[1].agents[a].position = agents_[now].target

\* A singleton group holds a plan that fills its window: W + 1 states
C14_Witness ==
  /\ solver = "od"
  /\ pc = "replan"
  /\ window_ > 0
  /\ \E i \in 1 .. Len(groups_) :
       /\ Len(groups_[i].starting_positions) = 1
       /\ Len(groups_[i].plan) = window_ + 1

\* Whether a state is full: nobody is next and no action is pending
FullState(st) ==
  /\ st.next_agent = 0
  /\ \A a \in 1 .. Len(st.agents) : st.agents[a].action = "unassigned"

\* C15: every state of a plan returned by replan_group is a full state
\* (next_agent = 0, every pending action unassigned), and only states with
\* next_agent = 0 are eligible for the closed set of the search.
C15_PlansHoldFullStatesOnly ==
  (solver = "od" /\ pc = "replan") =>
    \A i \in 1 .. Len(groups_) :
      LET plan == groups_[i].plan IN
      \A k \in 1 .. Len(plan) :
        /\ FullState(plan[k])
        /\ \A st \in state_successors_get(plan[k]) :
             close_full(AgentsStateTime(st, Len(plan) - k + 1)) <=> FullState(st)

\* A group of two agents holds a plan of several states: its search went
\* through partial states
C15_Witness ==
  /\ solver = "od"
  /\ pc = "replan"
  /\ \E i \in 1 .. Len(groups_) :
       /\ Len(groups_[i].starting_positions) = 2
       /\ Len(groups_[i].plan) >= 2

\* C16: solved(w) is true exactly when every agent of w stands on its target,
\* and it is true for a world without agents.
C16_SolvedIffAllOnTarget ==
  solver = "world" =>
    /\ solved(TheWorld) <=> \A p \in DOMAIN agents_ : agents_[p].target = p
    /\ agents_ = Empty => solved(TheWorld)

\* A world with an agent on its target is solved
C16_Witness ==
  /\ solver = "world"
  /\ last_call[1] = "put_agent"
  /\ agents_ # Empty
  /\ solved(TheWorld)

\* The positions translate is asked about: the cells of the map and the
\* cells around it
Positions == {<<x, y>> : x \in -1 .. Width, y \in -1 .. Height}

\* C17: for every position p and direction d, translate followed by translate
\* in the inverse direction gives p back, and translate(p, d) is at Manhattan
\* distance exactly 1 from p.
C17_TranslateInverseRoundTrip ==
  \A p \in Positions \cup {node.state.agents[i].position :
                             i \in 1 .. Len(node.state.agents)} :
    \A d \in Directions :
      /\ translate(translate(p, d), inverse(d)) = p
      /\ distance(p, translate(p, d)) = 1

\* The search applied a move operator: an agent of the node has a direction
\* as its pending action
C17_Witness ==
  /\ solver = "successors"
  /\ node.time >= 1
  /\ \E i \in 1 .. Len(node.state.agents) :
       node.state.agents[i].action \in Directions

\* Where agent j of a state stood before its pending action
PreMove(st, j) ==
  IF st.agents[j].action \in Directions
  THEN translate(st.agents[j].position, inverse(st.agents[j].action))
  ELSE st.agents[j].position

\* Whether the successors of st hold the move of its next agent to p
Admits(st, p) ==
  \E su \in state_successors_get(st) : su.agents[st.next_agent + 1].position = p

\* C18: state_successors::get, for a state with next_agent = i, admits the move
\* of agent i in direction d to p (in bounds, not a wall) if and only if for
\* every already assigned agent j < i: p differs from j's post-move position
\* and it is not the case that p is j's pre-move position while j's post-move
\* position is agent i's position.
C18_MoveAdmittedIffNoConflict ==
  solver = "successors" =>
    LET st == node.state
        i == st.next_agent + 1
        here == st.agents[i].position
    IN \A d \in Directions :
         LET p == translate(here, d) IN
         (in_bounds(p) /\ map_get(p) # "wall") =>
           (Admits(st, p) <=>
              \A j \in 1 .. i - 1 :
                /\ p # st.agents[j].position
                /\ ~ (p = PreMove(st, j) /\ st.agents[j].position = here))

\* An assigned agent has moved onto the next agent's cell: the move into the
\* cell it came from is a head-on swap
C18_Witness ==
  /\ solver = "successors"
  /\ node.state.next_agent >= 1
  /\ LET st == node.state
         here == st.agents[st.next_agent + 1].position
     IN \E j \in 1 .. st.next_agent :
          /\ st.agents[j].position = here
          /\ PreMove(st, j) # here
          /\ ~Admits(st, PreMove(st, j))

\* C19: state_successors::get includes the stay successor for agent i exactly
\* when no already assigned agent has its post-move position on agent i's
\* cell; when there is such an agent and no move is admissible, the state has
\* no successors.
C19_StayUnlessMustVacate ==
  solver = "successors" =>
    LET st == node.state
        i == st.next_agent + 1
        here == st.agents[i].position
        taken == \E j \in 1 .. i - 1 : st.agents[j].position = here
        moves == {d \in Directions :
                    LET p == translate(here, d) IN
                    in_bounds(p) /\ map_get(p) # "wall" /\ Admits(st, p)}
    IN /\ Admits(st, here) <=> ~taken
       /\ (taken /\ moves = {}) => state_successors_get(st) = {}

\* The next agent must leave its cell and has nowhere to go
C19_Witness ==
  /\ solver = "successors"
  /\ node.time >= 1
  /\ LET st == node.state
         here == st.agents[st.next_agent + 1].position
     IN /\ \E j \in 1 .. st.next_agent : st.agents[j].position = here
        /\ state_successors_get(st) = {}

\* C20: starting from a full state with pairwise distinct positions, every
\* full state reached by applying state_successors::get repeatedly has
\* pairwise distinct positions, next_agent = 0 and every pending action
\* unassigned.
C20_FullStatesKeepDistinctPositions ==
  (solver = "successors" /\ node.state.next_agent = 0) =>
    LET st == node.state IN
    /\ \A a, b \in 1 .. Len(st.agents) :
         a # b => st.agents[a].position # st.agents[b].position
    /\ \A a \in 1 .. Len(st.agents) : st.agents[a].action = "unassigned"

\* A round of three agents was completed
C20_Witness ==
  /\ solver = "successors"
  /\ Len(node.state.agents) = 3
  /\ node.time = 3
  /\ node.state.next_agent = 0

\* Whether every member of group g holds its starting cell in the tables as
\* the single state of a plan reserved at tick t does
StayReserved(g, table, permanent, t) ==
  \A i \in 1 .. Len(g.starting_positions) :
    LET pos == g.starting_positions[i] IN
    /\ <<pos, t>> \in DOMAIN table
    /\ table[<<pos, t>>] = [group |-> g.gid, from |-> NoPos]
    /\ pos \in DOMAIN permanent
    /\ permanent[pos] = [group |-> g.gid, from_time |-> t + 1]

\* Whether a planner state holds group g with the plan in which every member
\* stays, checked for conflicts: reserved, or merged with the groups it met
StayPlanHandled(g, groups, table, permanent) ==
  \/ \E j \in 1 .. Len(groups) :
       /\ groups[j].gid = g.gid
       /\ groups[j].plan = <<group_current_state(TheWorld, g)>>
       /\ StayReserved(g, table, permanent, tick_)
  \/ \E j \in 1 .. Len(groups) :
       /\ groups[j].plan = << >>
       /\ Len(groups[j].starting_positions) > Len(g.starting_positions)
       /\ \A i \in 1 .. Len(g.starting_positions) :
            \E k \in 1 .. Len(groups[j].starting_positions) :
              groups[j].starting_positions[k] = g.starting_positions[i]

\* The last call of replan_group, and whether step has returned cancelled
PlannedGroup == last_replan_group.group

\* No entry of the tables refers to group gid
Unreserved(gid) ==
  /\ \A k \in DOMAIN reservation_table_ : reservation_table_[k].group # gid
  /\ \A p \in DOMAIN permanent_reservation_table_ :
       permanent_reservation_table_[p].group # gid

\* C21 as stated: if the joint search of replan_group finds no plan or is
\* cancelled, the group's plan is the single state in which every member stays
\* on its starting position, and the group is conflict-checked and entered in
\* the reservation tables.
C21_StayPlanWhenNoPlanOrCancelled ==
  (solver = "od" /\ last_replan_group.search \in {"nothing", "cancelled"}) =>
    StayPlanHandled(PlannedGroup, groups_, reservation_table_,
                    permanent_reservation_table_)

\* C21: if the joint search of replan_group finds no plan and the step is not
\* cancelled, the group's plan is the single state in which every member stays
\* on its starting position, and the group is conflict-checked and entered in
\* the reservation tables; if the search is cancelled, the group's plan is
\* left empty and the group is not entered in the tables.
C21_StayPlanWhenNoPlanFound ==
  /\ (solver = "od" /\ last_replan_group.search = "nothing" /\ pc = "replan") =>
       StayPlanHandled(PlannedGroup, groups_, reservation_table_,
                       permanent_reservation_table_)
  /\ (solver = "od" /\ last_replan_group.search = "cancelled") =>
       /\ pc = "returned"
       /\ \E j \in 1 .. Len(groups_) :
            groups_[j].gid = PlannedGroup.gid /\ groups_[j].plan = << >>
       /\ Unreserved(PlannedGroup.gid)

\* A group whose search finds no plan holds the plan in which its members stay,
\* and the tables hold it
C21_Witness ==
  /\ solver = "od"
  /\ pc = "replan"
  /\ last_replan_group.search = "nothing"
  /\ \E i \in 1 .. Len(groups_) :
       /\ groups_[i].gid = PlannedGroup.gid
       /\ groups_[i].plan = <<group_current_state(TheWorld, PlannedGroup)>>
       /\ StayReserved(groups_[i], reservation_table_, permanent_reservation_table_,
                       tick_)

\* The members of a group, as a set of starting positions
Members(g) == {g.starting_positions[i] : i \in 1 .. Len(g.starting_positions)}

\* The group of the list that has the given gid
GroupOf(groups, gid) == groups[CHOOSE i \in 1 .. Len(groups) : groups[i].gid = gid]

GidsOf(groups) == {groups[i].gid : i \in 1 .. Len(groups)}

\* The step is an iteration of replan_groups that found conflicts and merged
ConflictedPass ==
  /\ solver = "od"
  /\ pc = "replan"
  /\ pc' = "replan"
  /\ replan_groups_calls' > replan_groups_calls

\* The groups an iteration merged: those that are gone or have other members
MergedBy(before, after) ==
  {i \in 1 .. Len(before) :
     \/ before[i].gid \notin GidsOf(after)
     \/ GroupOf(after, before[i].gid).starting_positions # before[i].starting_positions}

\* C22: when replan_groups detects conflicts for a newly planned group, after
\* merge_groups exactly one group remains in place of the conflicting groups
\* and the current group; its members are the union of their members, its plan
\* is empty, no reservation entry in either table refers to any merged or
\* erased group, and every agent of the world still belongs to exactly one
\* group.
C22_MergeLeavesOneGroup ==
  [][ConflictedPass =>
      LET merged == MergedBy(groups_, groups_')
          gids == {groups_[i].gid : i \in merged}
          heirs == {j \in 1 .. Len(groups_') : groups_'[j].gid \in gids}
      IN /\ next_group(TheOd) \in merged
         /\ Cardinality(merged) >= 2
         /\ Cardinality(heirs) = 1
         /\ Len(groups_') = Len(groups_) - Cardinality(merged) + 1
         /\ \A j \in heirs :
              /\ groups_'[j].plan = << >>
              /\ Members(groups_'[j]) = UNION {Members(groups_[i]) : i \in merged}
              /\ Len(groups_'[j].starting_positions) = Cardinality(Members(groups_'[j]))
         /\ \A i \in 1 .. Len(groups_) :
              i \notin merged => GroupOf(groups_', groups_[i].gid) = groups_[i]
         /\ \A k \in DOMAIN reservation_table_' :
              reservation_table_'[k].group \notin gids
         /\ \A p \in DOMAIN permanent_reservation_table_' :
              permanent_reservation_table_'[p].group \notin gids
         /\ \A p \in DOMAIN agents_ :
              Cardinality({j \in 1 .. Len(groups_') : p \in Members(groups_'[j])}) = 1]_vars

\* Two groups were found in conflict and merged into one that holds both agents
C22_Witness ==
  /\ solver = "od"
  /\ pc = "replan"
  /\ replan_groups_calls = 2
  /\ Len(groups_) = 1
  /\ groups_[1].plan = << >>
  /\ Members(groups_[1]) = DOMAIN agents_
  /\ Cardinality(DOMAIN agents_) = 2

\* Every cell of the plan of group g is entered in the tables for its tick, and
\* the cells of its final state for good
PlanReserved(g) ==
  LET n == Len(g.plan) IN
  /\ \A k \in 0 .. n - 1 :
       \A i \in 1 .. Len(g.plan[n - k].agents) :
         LET key == <<g.plan[n - k].agents[i].position, tick_ + k>> IN
         /\ key \in DOMAIN reservation_table_
         /\ reservation_table_[key].group = g.gid
  /\ \A i \in 1 .. Len(g.plan[1].agents) :
       LET pos == g.plan[1].agents[i].position IN
       /\ pos \in DOMAIN permanent_reservation_table_
       /\ permanent_reservation_table_[pos].group = g.gid

\* The groups whose plan is empty
Unplanned(groups) == {i \in 1 .. Len(groups) : groups[i].plan = << >>}

\* Every iteration of the loop of replan_groups brings replan nearer its end:
\* one that reports a conflict leaves fewer groups, any other leaves fewer
\* groups without a plan; and replan_groups is called at most once per agent
ReplanProgress ==
  /\ [][ConflictedPass => Len(groups_') < Len(groups_)]_vars
  /\ [][(/\ solver = "od" /\ pc = "replan" /\ pc' = "replan"
         /\ groups_' # groups_ /\ replan_groups_calls' = replan_groups_calls)
        => /\ Len(groups_') = Len(groups_)
           /\ Cardinality(Unplanned(groups_')) < Cardinality(Unplanned(groups_))]_vars
  /\ [](solver = "od" => replan_groups_calls <= Cardinality(DOMAIN agents_))

\* C23 as stated: replan terminates; every pass of replan_groups that reports
\* a conflict strictly decreases the number of groups, replan_groups is called
\* at most n times for n agents, and the last pass leaves every group with a
\* non-empty reserved plan.
C23_ReplanEndsWithReservedPlans ==
  /\ ReplanProgress
  /\ [][(solver = "od" /\ pc = "replan" /\ pc' = "returned")
        => \A i \in 1 .. Len(groups_') :
             groups_'[i].plan # << >> /\ groups_[i].plan # << >>
             /\ PlanReserved(groups_[i])]_vars

\* C23: replan terminates; every pass of replan_groups that reports a conflict
\* strictly decreases the number of groups, replan_groups is called at most n
\* times for n agents, and unless the step is cancelled the last pass leaves
\* every group with a non-empty reserved plan.
C23_ReplanEndsWithReservedPlansUnlessCancelled ==
  /\ ReplanProgress
  /\ [][(solver = "od" /\ pc = "replan" /\ pc' = "returned" /\ ~should_stop_)
        => \A i \in 1 .. Len(groups_') :
             groups_'[i].plan # << >> /\ groups_[i].plan # << >>
             /\ PlanReserved(groups_[i])]_vars

\* A replan whose first pass reported a conflict has ended after its second
\* pass and the step has emitted the plan of the merged group
C23_Witness ==
  /\ solver = "od"
  /\ pc = "returned"
  /\ ~should_stop_
  /\ replan_groups_calls = 2
  /\ Len(groups_) = 1
  /\ groups_[1].plan # << >>
  /\ result # {}

\* Some group with a next state has an agent whose cell in that state holds an
\* obstacle now
NextCellObstructed ==
  \E i \in 1 .. Len(groups_) :
    LET plan == groups_[i].plan IN
    /\ Len(plan) >= 2
    /\ \E a \in 1 .. Len(plan[Len(plan) - 1].agents) :
         plan[Len(plan) - 1].agents[a].position \in DOMAIN obstacles_

\* Some group has no plan, or a plan of one state in which a member is off its
\* target
PlanExhausted ==
  \E i \in 1 .. Len(groups_) :
    LET plan == groups_[i].plan IN
    \/ plan = << >>
    \/ /\ Len(plan) = 1
       /\ \E a \in 1 .. Len(plan[1].agents) :
            agents_[plan[1].agents[a].position].target # plan[1].agents[a].position

\* C24: plans_admissible returns invalid if and only if some group whose plan
\* has at least two states has an agent whose cell in the next plan state is
\* currently an obstacle; otherwise it returns incomplete if and only if some
\* group's plan is empty or is a single state in which not every member is on
\* its target; otherwise it returns admissible.
C24_AdmissibilityVerdict ==
  solver = "od" =>
    plans_admissible(TheOd, TheWorld) =
      IF NextCellObstructed THEN "invalid"
      ELSE IF PlanExhausted THEN "incomplete"
      ELSE "admissible"

\* A step starts with two groups, and an obstacle has moved onto the next cell
\* of the second
C24_Witness ==
  /\ solver = "od"
  /\ pc = "idle"
  /\ Len(groups_) = 2
  /\ Len(groups_[2].plan) >= 2
  /\ \E a \in 1 .. Len(groups_[2].plan[Len(groups_[2].plan) - 1].agents) :
       groups_[2].plan[Len(groups_[2].plan) - 1].agents[a].position
         \in DOMAIN obstacles_
  /\ plans_admissible(TheOd, TheWorld) = "invalid"

\* step is entered
StepStarts == solver = "od" /\ pc = "idle" /\ pc' # "idle"

\* C25: in every OD step in which no groups exist, some group's plan is empty
\* or exhausted short of the goal, or some agent's next planned cell is
\* currently an obstacle, the step discards all groups and reservations and
\* replans from singleton groups before emitting; consequently a step never
\* emits an action whose destination is an obstacle in the world given to that
\* step, and plan_invalid_ is incremented exactly in the obstacle case.
C25_ReplanBeforeEmitting ==
  /\ [][(StepStarts /\ (groups_ = << >> \/ PlanExhausted \/ NextCellObstructed))
        => /\ pc' = "replan"
           /\ result' = result
           /\ UNCHANGED worldVars
           /\ reservation_table_' = Empty
           /\ permanent_reservation_table_' = Empty
           /\ Len(groups_') = Cardinality(DOMAIN agents_)
           /\ \A i \in 1 .. Len(groups_') :
                groups_'[i].plan = << >> /\ Len(groups_'[i].starting_positions) = 1
           /\ UNION {Members(groups_'[i]) : i \in 1 .. Len(groups_')} = DOMAIN agents_]_vars
  /\ [][(solver = "od" /\ pc # "returned" /\ pc' = "returned")
        => /\ obstacles_' = obstacles_
           /\ \A a \in result' : MovedTo(a) \notin DOMAIN obstacles_]_vars
  /\ [][plan_invalid_' = IF StepStarts /\ NextCellObstructed
                         THEN plan_invalid_ + 1 ELSE plan_invalid_]_vars

\* A step that found an obstacle on an agent's next planned cell has replanned
\* and emitted an action
C25_Witness ==
  /\ solver = "od"
  /\ pc = "returned"
  /\ plan_invalid_ = 1
  /\ tick_ = 1
  /\ result # {}

\* C26: in OD, a joint state is impassable whenever the predictor's probability
\* for the cell of some agent of the state at the corresponding future tick
\* exceeds the obstacle threshold the planner was configured with
\* (obstacle_threshold_): no state the search put in a plan holds such a cell.
C26_NoPlanStateAbovePlannerThreshold ==
  (solver = "od" /\ pc = "replan") =>
    \A i \in 1 .. Len(groups_) :
      LET plan == groups_[i].plan
          n == Len(plan) IN
      \A k \in 1 .. n - 1 :
        \A a \in 1 .. Len(plan[n - k].agents) :
          predict_obstacle(field, <<plan[n - k].agents[a].position, tick_ + k>>)
            <= od_obstacle_threshold_

\* The steps a search may consider: from q to p, a neighbour of q or q itself
CandidateSteps == {s \in Cells \X Cells : s[1] = s[2] \/ neighbours(s[1], s[2])}

\* The step q -> p arriving at tick t meets a reservation of an agent other
\* than a_id: of the cell p at t, or of q at t by an agent that comes from p
ReservedByAnother(a_id, p, q, t) ==
  \/ /\ <<p, t>> \in DOMAIN agent_reservations_
     /\ agent_reservations_[<<p, t>>].agent # a_id
  \/ /\ <<q, t>> \in DOMAIN agent_reservations_
     /\ agent_reservations_[<<q, t>>].agent # a_id
     /\ agent_reservations_[<<q, t>>].from = p

\* The step q -> p arriving at tick t meets a reservation of a_id itself
ReservedByItself(a_id, p, q, t) ==
  \/ /\ <<p, t>> \in DOMAIN agent_reservations_
     /\ agent_reservations_[<<p, t>>].agent = a_id
  \/ /\ <<q, t>> \in DOMAIN agent_reservations_
     /\ agent_reservations_[<<q, t>>].agent = a_id
     /\ agent_reservations_[<<q, t>>].from = p

\* The table a search for the agent on cell `from' consults when it starts
\* now: find_path removes the agent's reservations first
SearchTables(from) == {unreserve(agent_reservations_, agents_[from].id)}

\* C27: in a WHCA* search for agent a, a candidate step q -> p arriving at tick
\* t = w.tick + distance is rejected if (p, t) is reserved by another agent or
\* if (q, t) is reserved with from = p; it is never rejected because of a
\* reservation owned by a itself, since a's own reservations are removed
\* before any search for a starts.
C27_RejectedByOthersOnly ==
  (solver = "whca" /\ pc = "loop") =>
    \A from \in {p \in DOMAIN agents_ : agents_[p].id \in todo} :
      \A res \in SearchTables(from) :
        \A s \in CandidateSteps :
          \A dist \in 1 .. Max(window_, rejoin_limit_) :
            passable_if_not_reserved(res, from, s[1], s[2], TheWorld, dist)
              <=> /\ ~ReservedByAnother(agents_[from].id, s[1], s[2], tick_ + dist)
                  /\ (world_get(TheWorld, s[1]) = "free" \/ ~neighbours(s[1], from))

\* The search for an agent get_action has yet to visit would admit a step onto
\* a cell the agent itself has reserved for that tick, and reject another for
\* the reservation of another agent
C27_Witness ==
  /\ solver = "whca"
  /\ pc = "loop"
  /\ \E from \in {p \in DOMAIN agents_ : agents_[p].id \in todo} :
     \E res \in SearchTables(from) :
       /\ \E s \in CandidateSteps : \E dist \in 1 .. window_ :
            /\ ReservedByItself(agents_[from].id, s[1], s[2], tick_ + dist)
            /\ passable_if_not_reserved(res, from, s[1], s[2], TheWorld, dist)
       /\ \E s \in CandidateSteps : \E dist \in 1 .. window_ :
            /\ ReservedByAnother(agents_[from].id, s[1], s[2], tick_ + dist)
            /\ world_get(TheWorld, s[1]) = "free"
            /\ ~passable_if_not_reserved(res, from, s[1], s[2], TheWorld, dist)

\* The tables hold the plan of group g as reserve(plan, g, tick_) writes it
PlanEntered(g) ==
  LET n == Len(g.plan) IN
  /\ \A k \in 0 .. n - 1 :
       \A i \in 1 .. Len(g.plan[n - k].agents) :
         LET key == <<g.plan[n - k].agents[i].position, tick_ + k>> IN
         /\ key \in DOMAIN reservation_table_
         /\ reservation_table_[key] =
              [group |-> g.gid,
               from |-> IF k > 0 THEN g.plan[n - k + 1].agents[i].position ELSE NoPos]
  /\ \A i \in 1 .. Len(g.plan[1].agents) :
       LET pos == g.plan[1].agents[i].position IN
       /\ pos \in DOMAIN permanent_reservation_table_
       /\ permanent_reservation_table_[pos] = [group |-> g.gid, from_time |-> tick_ + n]

\* C28: reserve(owner, path, start) writes, for every k from 0 to
\* len(path) - 1, an entry at (cell visited after k steps, start + k) owned by
\* owner, whose from field is the cell visited after k - 1 steps for k > 0 and
\* absent for k = 0; in OD it additionally writes a permanent entry for each
\* agent's cell of the final state with from_time = start + len(plan).
C28_ReserveWritesEveryStep ==
  /\ (solver = "whca" /\ last_find # Empty /\ last_find.kind = "primary") =>
       LET path == last_find.path
           n == Len(path) IN
       \A k \in 0 .. n - 1 :
         LET key == <<path[n - k], last_find.tick + k>> IN
         /\ key \in DOMAIN agent_reservations_
         /\ agent_reservations_[key] =
              [agent |-> last_find.agent,
               from |-> IF k > 0 THEN path[n - k + 1] ELSE NoPos]
  /\ (solver = "od" /\ pc = "replan") =>
       \A i \in 1 .. Len(groups_) : groups_[i].plan # << >> => PlanEntered(groups_[i])

\* reserve has entered a plan of three states of two agents in the tables of OD
C28_Witness ==
  /\ solver = "od"
  /\ pc = "replan"
  /\ \E i \in 1 .. Len(groups_) :
       /\ Len(groups_[i].plan) = 3
       /\ Len(groups_[i].starting_positions) = 2
       /\ PlanEntered(groups_[i])

\* Whether path is old spliced at its i-th cell: it follows old up to that
\* cell and then leaves it at once, on cells that are no free cell of old
SplicedAt(path, old, i) ==
  /\ i <= Len(path)
  /\ \A j \in 1 .. i : path[j] = old[j]
  /\ \A j \in i + 1 .. Len(path) :
       \A k \in 1 .. Len(old) :
         path[j] = old[k] => world_get(TheWorld, old[k]) # "free" \/ j = Len(path)
  /\ (i < Len(path) => path[i + 1] # path[i])
  /\ Len(path) - i <= rejoin_limit_

\* C29: whenever rejoin_path returns a path, that path is a walkable route from
\* the agent's current position to the end of the old path: stored goal-first,
\* its last element is the agent's position, its first element is the first
\* element of the old path, the rejoin cell occurs at the splice exactly once,
\* and every two consecutive elements are neighbouring or identical cells.
C29_RejoinedPathWalkable ==
  (last_find # Empty /\ last_find.kind = "rejoin") =>
    LET path == last_find.path
        old == last_find.old_path
        n == Len(path) IN
    /\ n >= 1
    /\ path[n] = last_find.from
    /\ path[1] = old[1]
    /\ \E i \in 1 .. Len(old) : SplicedAt(path, old, i)
    /\ \A j \in 1 .. n - 1 : path[j] = path[j + 1] \/ neighbours(path[j], path[j + 1])

\* rejoin_path has returned a path that joins the old path before its end and
\* keeps the rest of it
C29_Witness ==
  /\ last_find # Empty
  /\ last_find.kind = "rejoin"
  /\ \E i \in 2 .. Len(last_find.old_path) :
       /\ SplicedAt(last_find.path, last_find.old_path, i)
       /\ Len(last_find.path) >= i + 2


\* C30: on each LRA* recalculation for an agent not at its target, with
\* interval = current tick - tick of the agent's last recalculation: if
\* interval >= 5 the agent's agitation becomes 0; if 0 < interval < 5 the
\* agitation grows by the integer quotient 5 / interval (5, 2, 1, 1 for
\* interval 1..4); afterwards last_recalculation equals the current tick.
C30_AgitationByInterval ==
  (last_find # Empty /\ last_find.kind = "lra" /\ last_find.recalculated) =>
    LET before == last_find.data
        interval == last_find.tick - before.last_recalculation
        after == agent_data(data_, last_find.agent) IN
    /\ interval >= 5 => after.agitation = 0
    /\ interval \in 1 .. 4 => after.agitation = before.agitation + <<5, 2, 1, 1>>[interval]
    /\ interval > 0 => after.last_recalculation = last_find.tick

\* An agitated agent away from its target has recalculated two ticks after its
\* last recalculation and its agitation has grown by 2
C30_Witness ==
  /\ last_find # Empty
  /\ last_find.kind = "lra"
  /\ last_find.recalculated
  /\ last_find.tick - last_find.data.last_recalculation = 2
  /\ last_find.data.agitation > 0
  /\ agent_data(data_, last_find.agent) =
       AgentData(last_find.tick, last_find.data.agitation + 2)


\* C31: in every run of LRA* that starts from a world at tick 0 and is driven
\* once per tick, each call of lra::find_path for an agent not at its target
\* has recalc_interval > 0: the assertion holds on the agent's first
\* calculation and the same agent is never recalculated twice within one tick.
C31_RecalcIntervalPositive ==
  (solver = "lra" /\ last_find # Empty /\ last_find.kind = "lra"
     /\ last_find.recalculated) =>
    last_find.tick - last_find.data.last_recalculation > 0


\* Whether the two states can meet in one open set: same size, same
\* next_agent, same agent positions and ids
SameKey(lhs, rhs) == partial_state_hash(lhs) = partial_state_hash(rhs)

\* C40: for every pair of partial states that can meet in one open set (same
\* size, same next_agent, same agent positions and ids), partial_state_equal
\* computes pre-move positions only for actions that are directions: it never
\* passes stay or unassigned to agent_action_to_direction, also when one state
\* assigned an agent stay and the other moved the same agent into the same cell.
C40_OnlyDirectionsConverted ==
  (compared # Empty /\ SameKey(compared.lhs, compared.rhs)) =>
    /\ compared.verdict # "assert"
    /\ \A i \in 1 .. Len(compared.lhs.agents) :
         compared.lhs.agents[i].action # compared.rhs.agents[i].action =>
           /\ agent_action_to_direction_defined(compared.lhs.agents[i].action)
           /\ agent_action_to_direction_defined(compared.rhs.agents[i].action)


\* Whether partial_state_equal relates the two states: the call returns true
Related(lhs, rhs) == partial_state_equal(lhs, rhs) = {"true"}

\* C33: partial_state_equal is an equivalence relation on the partial states
\* produced by state_successors (reflexive, symmetric, transitive); it holds
\* for every pair of states that are equal under the full equality; and any
\* two states it relates have the same partial_state_hash.
C33_PartialEqualityIsEquivalence ==
  compared # Empty =>
    LET lhs == compared.lhs
        rhs == compared.rhs IN
    /\ compared.verdict \in {"true", "false"}
    /\ Related(lhs, lhs)
    /\ agents_state_equal(lhs, rhs) => compared.verdict = "true"
    /\ compared.verdict = "true" =>
         /\ Related(rhs, lhs)
         /\ partial_state_hash(lhs) = partial_state_hash(rhs)
         /\ \A third \in comparable(rhs) : Related(rhs, third) => Related(lhs, third)


\* The successors of a state as a search that prunes by partial equality sees
\* them: by agent positions, ids and next_agent
SuccessorKeys(state) == {partial_state_hash(st) : st \in state_successors_get(state)}

\* C32: pruning by partial equality is sound: for any two partial states s1,
\* s2 produced by state_successors on the same map, if partial_state_equal(s1,
\* s2) holds then state_successors::get yields for s1 and s2 the same set of
\* successors when successors are compared by agent positions, ids and
\* next_agent.
C32_PartialEqualityPreservesSuccessors ==
  (compared # Empty /\ compared.verdict = "true") =>
    SuccessorKeys(compared.lhs) = SuccessorKeys(compared.rhs)

\* partial_state_equal has held for two states in which an agent moved into
\* the same cell from different cells, next to the agent that moves next
C32_Witness ==
  /\ compared # Empty
  /\ compared.verdict = "true"
  /\ partial_state_equal(compared.lhs, compared.rhs) = {"true"}
  /\ compared.lhs.next_agent = 1
  /\ compared.lhs.agents[1].action \in Directions
  /\ compared.rhs.agents[1].action \in Directions
  /\ compared.lhs.agents[1].action # compared.rhs.agents[1].action
  /\ neighbours(compared.lhs.agents[1].position, compared.lhs.agents[2].position)
  /\ SuccessorKeys(compared.lhs) # {}


\* What the claim says of the non-random branch for the agent id of world w
\* when random_dir would be drawn: if the chosen move is valid, it is the only
\* action, along the x axis exactly when |dx| > |dy|, and one step nearer
GreedyHeadsForGoal(w, id, random_dir) ==
  LET pos == PosOf(w, id)
      goal == w.agents[pos].target
      dx == goal[1] - pos[1]
      dy == goal[2] - pos[2]
      o == greedy_iteration(w, id, FALSE, random_dir)
  IN (pos # goal /\ valid(Action(pos, greedy_direction(pos, goal)), w)) =>
       /\ Cardinality(o.acts) = 1
       /\ \A a \in o.acts :
            /\ a.from = pos
            /\ a.dir \in {"east", "west"} <=> Abs(dx) > Abs(dy)
            /\ a.dir \in {"north", "south"} <=> Abs(dx) <= Abs(dy)
            /\ translate(pos, a.dir) \in DOMAIN o.w.agents
            /\ o.w.agents[translate(pos, a.dir)].id = id
            /\ distance(translate(pos, a.dir), goal) = distance(pos, goal) - 1

\* C34: in Greedy, when an agent not at its goal takes the non-random branch
\* and the chosen move is valid, the move is along the x axis exactly when
\* |dx| > |dy| (otherwise along the y axis, including ties) and it decreases
\* the agent's Manhattan distance to its goal by exactly 1; in every case the
\* agent receives at most one action per tick and only an action that is valid
\* in the working world.
C34_GreedyStepsTowardsGoal ==
  [][(solver = "greedy" /\ pc = "loop" /\ pc' = "loop") =>
       /\ \A id \in todo, random_dir \in Directions :
            GreedyHeadsForGoal(TheWorld, id, random_dir)
       /\ \E id \in todo :
            /\ todo' = todo \ {id}
            /\ Cardinality(result' \ result) <= 1
            /\ \A a \in result' \ result :
                 /\ a.from = PosOf(TheWorld, id)
                 /\ valid(a, TheWorld)
            /\ \A a \in result : a.from # PosOf(TheWorld, id)]_vars

\* Greedy moved an agent whose goal was as far along x as along y: it went
\* along the y axis and is one step nearer
C34_Witness ==
  /\ solver = "greedy"
  /\ pc = "loop"
  /\ \E a \in result :
       LET to == translate(a.from, a.dir) IN
       /\ to \in DOMAIN agents_
       /\ Abs(agents_[to].target[1] - a.from[1]) = Abs(agents_[to].target[2] - a.from[2])
       /\ a.dir \in {"north", "south"}
       /\ distance(to, agents_[to].target) = distance(a.from, agents_[to].target) - 1


\* C35: world::next_tick increases the tick by exactly 1, leaves every agent's
\* position and target unchanged, preserves the number of obstacles, moves an
\* obstacle only when its next_move equals the new tick and then by one cell
\* onto an in-bounds free cell, and never raises a logic_error from
\* remove_obstacle or put_obstacle.
C35_NextTickFrame ==
  [][(solver = "world" /\ last_call' = <<"next_tick", NoPos>> /\ tick_' # tick_) =>
       /\ tick_' = tick_ + 1
       /\ agents_' = agents_
       /\ Cardinality(DOMAIN obstacles_') = Cardinality(DOMAIN obstacles_)
       /\ err' = "none"
       /\ \A p \in DOMAIN obstacles_ :
            obstacles_[p].next_move # tick_' =>
              p \in DOMAIN obstacles_' /\ obstacles_'[p] = obstacles_[p]
       /\ \A q \in DOMAIN obstacles_' \ DOMAIN obstacles_ :
            /\ in_bounds(q)
            /\ world_get(TheWorld, q) = "free"
            /\ \E p \in DOMAIN obstacles_ :
                 neighbours(p, q) /\ obstacles_[p].next_move = tick_'
       /\ \A q \in DOMAIN obstacles_' :
            obstacles_'[q].next_move > tick_' =>
              \/ q \in DOMAIN obstacles_ /\ obstacles_[q] = obstacles_'[q]
              \/ \E p \in DOMAIN obstacles_ :
                   neighbours(p, q) /\ obstacles_[p].next_move = tick_']_vars

\* next_tick has moved an obstacle that was due from (1,0) to (1,1) and has
\* set its next move, while (0,0) held an agent or another obstacle
C35_Witness ==
  /\ solver = "world"
  /\ last_call = <<"next_tick", NoPos>>
  /\ tick_ = 1
  /\ err = "none"
  /\ <<1, 1>> \in DOMAIN obstacles_
  /\ obstacles_[<<1, 1>>].next_move > tick_
  /\ <<0, 0>> \in DOMAIN agents_ \cup DOMAIN obstacles_

\* C39: after every world::next_tick, every obstacle's next_move is strictly
\* greater than the current tick, so every obstacle attempts to move again at
\* some later tick, also after a move attempt that was blocked.
C39_ObstaclesMoveAgain ==
  (solver = "world" /\ last_call = <<"next_tick", NoPos>>) =>
    \A p \in DOMAIN obstacles_ : obstacles_[p].next_move > tick_


\* C36: in LRA*/WHCA*, across any sequence of ticks in which the host applies
\* exactly the emitted joint action, whenever next_step pops a cached path of
\* at least two cells for an agent, the last element of that path equals the
\* agent's current position (the assertion in next_step holds): every path of
\* at least two cells a search has just returned ends on the cell searched
\* from, and every path of at least two cells kept in paths_ ends on the cell
\* its agent stands on.
C36_PathEndsOnAgent ==
  (solver \in {"lra", "whca"} /\ pc # "aborted" /\ err = "none") =>
    /\ (last_find # Empty /\ Len(last_find.path) >= 2) =>
         Last(last_find.path) = last_find.from
    /\ \A p \in DOMAIN agents_ :
         LET id == agents_[p].id IN
         (id \in DOMAIN paths_ /\ Len(paths_[id]) >= 2) => Last(paths_[id]) = p

\* At the second tick an agent that has moved along its path still holds two
\* or more cells of it for next_step to pop
C36_Witness ==
  /\ solver \in {"lra", "whca"}
  /\ pc = "loop"
  /\ tick_ = 1
  /\ err = "none"
  /\ \E p \in DOMAIN agents_ :
       /\ agents_[p].id \in todo
       /\ Len(paths_[agents_[p].id]) >= 2
       /\ Last(paths_[agents_[p].id]) = p
       /\ \E q \in DOMAIN agents_ :
            /\ agents_[q].id \notin todo
            /\ Len(paths_[agents_[q].id]) >= 2
            /\ \E a \in result : translate(a.from, a.dir) = q


\* C37: in WHCA*, across any sequence of ticks, reserve never writes a (cell,
\* tick) key that already has an entry: the assertion in
\* cooperative_a_star::reserve holds for every cell of the new path, including
\* the agent's own start cell at the current tick.
C37_ReserveWritesFreshKeys ==
  (solver = "whca" /\ last_find # Empty /\ last_find.kind = "primary") =>
    last_find.clash = {}

\* At the second tick an agent has searched anew and reserved a path of two or
\* more cells, its start cell at the current tick among them, while another
\* agent held reservations from that tick on
C37_Witness ==
  /\ solver = "whca"
  /\ tick_ = 1
  /\ last_find # Empty
  /\ last_find.kind = "primary"
  /\ last_find.tick = 1
  /\ Len(last_find.path) >= 2
  /\ <<last_find.from, 1>> \in DOMAIN agent_reservations_
  /\ agent_reservations_[<<last_find.from, 1>>].agent = last_find.agent
  /\ \E k \in DOMAIN agent_reservations_ :
       /\ agent_reservations_[k].agent # last_find.agent
       /\ k[2] >= 2


\* Whether the current state of the group's plan, its last element, places the
\* group's agents where the world has them
AtCurrentState(g) ==
  LET current == Last(g.plan) IN
  /\ Len(current.agents) = Len(g.starting_positions)
  /\ \A i \in 1 .. Len(current.agents) :
       /\ current.agents[i].position \in DOMAIN agents_
       /\ agents_[current.agents[i].position].id = current.agents[i].id

\* C38: in OD, at the start of every step and after every step that applied
\* its action, for every group with a non-empty plan the agent positions in
\* the last element of the plan (the current state) are exactly the world
\* positions of that group's agents, provided agents are moved only by the
\* planner's own actions.
C38_PlanStartsAtWorldPositions ==
  (solver = "od" /\ pc \in {"idle", "returned"} /\ err = "none") =>
    \A i \in 1 .. Len(groups_) :
      groups_[i].plan # << >> => AtCurrentState(groups_[i])

\* A step has applied the moves of a group of two agents whose plan goes on,
\* and the next step starts
C38_Witness ==
  /\ solver = "od"
  /\ pc = "idle"
  /\ tick_ = 1
  /\ err = "none"
  /\ result # {}
  /\ \E i \in 1 .. Len(groups_) :
       /\ Len(groups_[i].plan) >= 2
       /\ Len(groups_[i].starting_positions) = 2
       /\ AtCurrentState(groups_[i])
       /\ \E a \in result :
            \E k \in 1 .. 2 : Last(groups_[i].plan).agents[k].position = translate(a.from, a.dir)

=============================================================================
